---- MODULE Spec2Model ----
(***************************************************************************)
(* Reference database pipeline of scripts/: build_ref_db.py (bibliography  *)
(* parser, document reference parser, matcher, builder) and dedup_refs.py  *)
(* (dedup and renumber engine), over the on-disk stores chapter-map.json,  *)
(* references.json and authors.json and the chapter documents.             *)
(*                                                                         *)
(* Text is modelled as a sequence of word tokens, a URL as a sequence of   *)
(* URL parts, a document as a sequence of markup tokens.  Python's None    *)
(* and '' are the empty sequence for text values, NoYear for the year of   *)
(* a parsed reference, and the string "null" for enrichment values.        *)
(***************************************************************************)
EXTENDS Integers, Sequences, FiniteSets, TLC

VARIABLES
    bib,          \* parsed entries of 1411.3146/references.bib: key -> entry
    html,         \* slug -> markup tokens of the chapter file
    chapter_map,  \* data/chapter-map.json: slug -> (number -> key)
    references,   \* data/references.json: key -> record
    authors,      \* data/authors.json: author key -> record
    op,           \* the run that came last ("build", "dedup", or "other" for
                  \* an edit or a collaborator), with the warnings it logged
    bibText,      \* raw bibliography text given to parse_bibtex
    bibParsed,    \* result of parse_bibtex on bibText
    mref,         \* reference-list entry given to the matcher
    mbib,         \* bibliography given to the matcher (ordered keys)
    mres          \* result of match_refs_to_bib on <<mref>> and mbib

vars == <<bib, html, chapter_map, references, authors, op,
          bibText, bibParsed, mref, mbib, mres>>

----------------------------------------------------------------------------
(* Generic helpers *)

\* F applied to the value of e (e is evaluated once, like a Python local).
With(e, F(_)) == CHOOSE r \in {F(v) : v \in {e}} : TRUE

With2(e1, e2, F(_, _)) == CHOOSE r \in {F(v1, v2) : v1 \in {e1}, v2 \in {e2}} : TRUE

With3(e1, e2, e3, F(_, _, _)) ==
    CHOOSE r \in {F(v1, v2, v3) : v1 \in {e1}, v2 \in {e2}, v3 \in {e3}} : TRUE

Range(s) == {s[i] : i \in 1..Len(s)}

SeqsUpTo(S, n) == UNION {[1..k -> S] : k \in 0..n}

Min(S) == CHOOSE x \in S : \A y \in S : x <= y

Max(S) == CHOOSE x \in S : \A y \in S : x >= y

\* The elements of a finite set of integers, ascending (Python sorted()).
RECURSIVE Sorted(_)
Sorted(S) ==
    IF S = {} THEN <<>>
    ELSE With(Min(S), LAMBDA m : <<m>> \o With(S \ {m}, Sorted))

\* Index of the first element of s satisfying membership in S, 0 if none.
FirstIdx(s, P(_)) ==
    IF \E i \in 1..Len(s) : P(s[i])
    THEN Min({i \in 1..Len(s) : P(s[i])})
    ELSE 0

\* s is a contiguous part of t (Python "s in t" on strings).
Contains(t, s) ==
    \E i \in 0..(Len(t) - Len(s)) : SubSeq(t, i + 1, i + Len(s)) = s

EmptyMap == [x \in {} |-> 0]

\* dict.update / item assignment: g's entries override f's.
Update(f, g) ==
    [x \in DOMAIN f \cup DOMAIN g |-> IF x \in DOMAIN g THEN g[x] ELSE f[x]]

NoYear == 0

----------------------------------------------------------------------------
(* Documents: markup tokens *)

\* scripts/build_ref_db.py CHAPTER_FILES, cut to its first two documents.
CHAPTER_FILES == <<"index", "chapter2">>

Slugs == Range(CHAPTER_FILES)

\* t: "a" is <a href="#ref-n">, "li" is <li ... id="ref-n" ...> followed by
\* the spans of content c, "/li", "section" (refs: class has 'references'),
\* "/section", "ol", "/ol".  first: the id attribute directly follows
\* "<li ".  rm: the id carries the __REMOVE__ sentinel.  dq: the value of
\* the id attribute stands in double quotes.
Tok(t, n, first, c, refs) ==
    [t |-> t, n |-> n, first |-> first, c |-> c, refs |-> refs, rm |-> FALSE,
     dq |-> TRUE]

TA(n) == Tok("a", n, FALSE, "", FALSE)

TLi(n, first, c) == Tok("li", n, first, c, FALSE)

TEndLi == Tok("/li", 0, FALSE, "", FALSE)

TSection(refs) == Tok("section", 0, FALSE, "", refs)

TEndSection == Tok("/section", 0, FALSE, "", FALSE)

TOl == Tok("ol", 0, FALSE, "", FALSE)

TEndOl == Tok("/ol", 0, FALSE, "", FALSE)

----------------------------------------------------------------------------
(* Vocabulary: what the regular expressions and str methods of the code   *)
(* compute on each word token (a token not listed is left unchanged)      *)

Tbl(table, w, default) == IF w \in DOMAIN table THEN table[w] ELSE default

LowerTable ==
    [w \in {"Smith", "Doe", "Foo", "Bar", "The", "Mystery", "Deep", "Nets",
            "J.", "J", "A.", "JMLR", "ArXiv.org", "AND", "Article", "Title"} |->
        CASE w = "Smith" -> "smith" [] w = "Doe" -> "doe" [] w = "Foo" -> "foo"
          [] w = "Bar" -> "bar" [] w = "The" -> "the" [] w = "Mystery" -> "mystery"
          [] w = "Deep" -> "deep" [] w = "Nets" -> "nets" [] w = "J." -> "j."
          [] w = "J" -> "j"
          [] w = "A." -> "a." [] w = "JMLR" -> "jmlr"
          [] w = "ArXiv.org" -> "arxiv.org" [] w = "AND" -> "and"
          [] w = "Article" -> "article" [] w = "Title" -> "title"]

\* str.lower() of one word.
Lower(w) == Tbl(LowerTable, w, w)

LowerSeq(s) == [i \in 1..Len(s) |-> Lower(s[i])]

\* re.sub(r'[^\w\s]', '', w.lower()): punctuation removed ("" when nothing
\* is left); \w is Unicode-aware, so CJK words are kept.
PunctTable ==
    [w \in {",", ".", "j.", "a.", "(2020)", "(2021)", "2020.", "2021."} |->
        CASE w = "," -> "" [] w = "." -> "" [] w = "j." -> "j" [] w = "a." -> "a"
          [] w = "(2020)" -> "2020" [] w = "(2021)" -> "2021"
          [] w = "2020." -> "2020" [] w = "2021." -> "2021"]

WordNorm(w) == Tbl(PunctTable, Lower(w), Lower(w))

\* Words written with non-ASCII letters only (a CJK name, written here by
\* its code points): re.sub(r'[^a-z0-9 ]', '', ...) leaves nothing of them.
NonAscii == {"U+674E", "U+660E"}

\* The 4-digit years a token shows to \((\d{4})\), \b(\d{4})\b and (\d{4}).
ParenYearTable == [w \in {"(2020)", "(2021)"} |-> IF w = "(2020)" THEN 2020 ELSE 2021]

BareYearTable ==
    [w \in {"2020", "2021", "2020.", "2021.", "(2020)", "(2021)"} |->
        IF w \in {"2020", "2020.", "(2020)"} THEN 2020 ELSE 2021]

ParenYear(w) == Tbl(ParenYearTable, w, NoYear)

BareYear(w) == Tbl(BareYearTable, w, NoYear)

\* str(y) for a year.
YearStr(y) == CASE y = 2020 -> "2020" [] y = 2021 -> "2021" [] OTHER -> "None"

\* re.match(r'([A-Z][a-z]+)', w): the lowercased match, "" when w does not
\* start with a capital followed by a lowercase letter.
CapTable ==
    [w \in {"Smith", "Doe", "Foo", "Bar", "The", "Mystery", "Deep", "Nets"} |-> Lower(w)]

CapPrefix(w) == Tbl(CapTable, w, "")

\* len() of a word, for the length tests of the code.
WordLenTable ==
    [w \in {"mystery", "foo", "bar", "deep", "nets", "the", "jmlr", "smith",
            "doe", "j", "a", "2020", "2021"} |->
        CASE w = "mystery" -> 7 [] w \in {"foo", "bar", "the", "doe"} -> 3
          [] w \in {"deep", "nets", "jmlr", "2020", "2021"} -> 4
          [] w = "smith" -> 5 [] OTHER -> 1]

WordLen(w) == Tbl(WordLenTable, w, 1)

RECURSIVE CharLen(_)
\* len() of the words of s joined by single spaces.
CharLen(s) ==
    IF s = <<>> THEN 0
    ELSE IF Len(s) = 1 THEN WordLen(s[1])
    ELSE WordLen(s[1]) + 1 + CharLen(Tail(s))

\* dict.get(field, ''): a missing field reads as the empty text.
Get(e, f) == IF f \in DOMAIN e THEN e[f] ELSE <<>>

----------------------------------------------------------------------------
(* Bibliography helpers (build_ref_db.py) *)

BibTypeMap ==
    [t \in {"article", "inproceedings", "conference", "book", "incollection",
            "phdthesis", "mastersthesis", "techreport", "misc", "unpublished"} |->
        CASE t = "article" -> "journal"
          [] t \in {"inproceedings", "conference"} -> "conference"
          [] t = "book" -> "book"
          [] t = "incollection" -> "book-chapter"
          [] t \in {"phdthesis", "mastersthesis"} -> "thesis"
          [] t = "techreport" -> "report"
          [] t = "misc" -> "misc"
          [] t = "unpublished" -> "preprint"]

\* The entry type is the one-word text of field _type.
classify_bib_type(entry) ==
    IF Get(entry, "_type") = <<>> THEN "misc"
    ELSE Tbl(BibTypeMap, Get(entry, "_type")[1], "misc")

VenueFields == <<"journal", "booktitle", "publisher", "howpublished", "school">>

\* None is the empty text.
bib_venue(entry) ==
    LET i == FirstIdx(VenueFields, LAMBDA f : f \in DOMAIN entry)
    IN  IF i = 0 THEN <<>> ELSE entry[VenueFields[i]]

\* A parenthesized acronym word as r'\(([A-Z]{2,}[^)]*)\)' finds it.
AcronymTable == [w \in {"(JMLR)"} |-> "JMLR"]

LongVenue == 40

bib_venue_short(entry) ==
    With(bib_venue(entry), LAMBDA venue :
        LET i == FirstIdx(venue, LAMBDA w : w \in DOMAIN AcronymTable)
        IN  IF venue = <<>> THEN <<>>
            ELSE IF \E k \in 1..Len(venue) : Lower(venue[k]) = "arxiv" THEN venue
            ELSE IF CharLen(venue) > LongVenue /\ i # 0 THEN <<AcronymTable[venue[i]]>>
            ELSE venue)

RECURSIVE SplitAnd(_)
\* re.split(r'\s+and\s+', raw, flags=re.IGNORECASE): the parts between the
\* separator words.
SplitAnd(raw) ==
    With(FirstIdx(raw, LAMBDA w : Lower(w) = "and"), LAMBDA i :
        IF i = 0 THEN <<raw>>
        ELSE <<SubSeq(raw, 1, i - 1)>>
             \o With(SubSeq(raw, i + 1, Len(raw)), SplitAnd))

\* One author part as a (first, last) pair of texts.
ParseAuthor(p) ==
    LET c == FirstIdx(p, LAMBDA w : w = ",")
    IN  IF c # 0
        THEN [first |-> SubSeq(p, c + 1, Len(p)), last |-> SubSeq(p, 1, c - 1)]
        ELSE IF Len(p) = 1 THEN [first |-> <<>>, last |-> p]
        ELSE [first |-> SubSeq(p, 1, Len(p) - 1), last |-> <<p[Len(p)]>>]

parse_bib_authors(raw) ==
    IF raw = <<>> THEN <<>>
    ELSE With(SelectSeq(SplitAnd(raw), LAMBDA p : p # <<>>), LAMBDA parts :
             [i \in 1..Len(parts) |-> With(parts[i], ParseAuthor)])

\* normalize() of make_author_key on one word: accents and everything but
\* [a-z0-9] removed.
KeyWord(w) == IF w \in NonAscii THEN "" ELSE WordNorm(w)

\* normalize() of make_author_key: the surviving words, which the code joins
\* with underscores.
KeyNorm(s) == SelectSeq([i \in 1..Len(s) |-> KeyWord(s[i])], LAMBDA w : w # "")

\* The key is the sequence of its underscore-separated words; '' is <<>>.
make_author_key(first, last) == KeyNorm(last) \o KeyNorm(first)

make_display_name(first, last) == IF first # <<>> THEN first \o last ELSE last

\* _clean_latex: braces and LaTeX commands are separate words here.
LatexWords == {"{", "}", "\\textit", "\\textbf", "\\emph"}

_clean_latex(s) == SelectSeq(s, LAMBDA w : w \notin LatexWords)

----------------------------------------------------------------------------
(* Document reference parser (build_ref_db.py RefListParser) *)

UrlAbs == <<"https://", "arxiv.org", "/abs/", "2301.00001">>

UrlPdf == <<"https://", "arxiv.org", "/pdf/", "2301.00001">>

UrlDeep == <<"https://", "www.", "example.org", "/deep", "/">>

\* What stands inside an <li>: the text of its spans (authors, title,
\* venue), the href of its first <a>, and the text outside the spans.
Content(a, t, v, u, l) ==
    [authors_raw |-> a, title |-> t, venue |-> v, url |-> u, loose |-> l]

RefText ==
    [c \in {"smith_abs", "smith_pdf", "doe", "ming", "untitled", "sequel"} |->
        CASE c = "smith_abs" ->
                Content(<<"Smith", ",", "J.">>, <<"Foo", "Bar">>, <<"JMLR">>,
                        UrlAbs, <<"(2020)">>)
          [] c = "smith_pdf" ->
                Content(<<"J.", "Smith">>, <<"Foo", "Bar">>, <<>>, UrlPdf, <<"2020.">>)
          [] c = "doe" ->
                Content(<<"Doe", ",", "A.">>, <<"The", "Mystery">>, <<>>, <<>>, <<>>)
          [] c = "ming" ->
                Content(<<"U+674E", "U+660E">>, <<"Deep", "Nets">>, <<>>,
                        UrlDeep, <<"(2021)">>)
          [] c = "untitled" ->
                Content(<<"Doe", ",", "A.">>, <<>>, <<>>, <<>>, <<>>)
          [] c = "sequel" ->
                Content(<<"Doe", ",", "A.">>, <<"The", "Mystery", "Bar">>, <<>>, <<>>, <<>>)]

ContentIds == DOMAIN RefText

YearLo == 1900

YearHi == 2030

RECURSIVE DataYear(_, _)
\* handle_data on the text chunks outside the spans, in order: the first
\* parenthesized year, else a bare year within [1900, 2030].
DataYear(loose, year) ==
    IF loose = <<>> THEN year
    ELSE LET y1 == IF ParenYear(loose[1]) # NoYear /\ year = NoYear
                   THEN ParenYear(loose[1]) ELSE year
             b  == BareYear(loose[1])
             y2 == IF y1 = NoYear /\ b # NoYear /\ YearLo <= b /\ b <= YearHi
                   THEN b ELSE y1
         IN  With2(Tail(loose), y2, DataYear)

\* The dict of one entry once the text inside its <li> has been handled.
NewRef(tok) ==
    LET c == RefText[tok.c]
    IN  [num |-> tok.n, authors_raw |-> c.authors_raw, title |-> c.title,
         venue |-> c.venue, url |-> c.url, year |-> DataYear(c.loose, NoYear),
         all_text |-> c.authors_raw \o c.loose \o c.title \o c.venue]

ParserInit ==
    [in_ref_section |-> FALSE, in_ol |-> FALSE, depth |-> 0,
     current_ref |-> <<>>, refs |-> <<>>]

\* handle_starttag and handle_endtag on one token; current_ref is <<>> for
\* None and <<ref>> otherwise.
ParserStep(st, tok) ==
    CASE tok.t = "section" ->
            IF tok.refs THEN [st EXCEPT !.in_ref_section = TRUE, !.depth = 1]
            ELSE IF st.in_ref_section THEN [st EXCEPT !.depth = @ + 1]
            ELSE st
      [] tok.t = "ol" ->
            IF st.in_ref_section /\ ~st.in_ol THEN [st EXCEPT !.in_ol = TRUE] ELSE st
      [] tok.t = "li" ->
            IF st.in_ref_section /\ st.in_ol
            THEN [st EXCEPT !.current_ref = <<NewRef(tok)>>]
            ELSE st
      [] tok.t = "a" ->
            IF st.in_ref_section /\ st.current_ref # <<>>
               /\ st.current_ref[1].url = <<>>
            THEN [st EXCEPT !.current_ref = <<[@[1] EXCEPT !.url = <<"#ref-">>]>>]
            ELSE st
      [] tok.t = "/section" ->
            IF ~st.in_ref_section THEN st
            ELSE IF st.depth - 1 <= 0
            THEN [st EXCEPT !.depth = @ - 1, !.in_ref_section = FALSE, !.in_ol = FALSE]
            ELSE [st EXCEPT !.depth = @ - 1]
      [] tok.t = "/li" ->
            IF st.in_ref_section /\ st.current_ref # <<>>
            THEN [st EXCEPT !.refs = Append(@, st.current_ref[1]), !.current_ref = <<>>]
            ELSE st
      [] OTHER -> st

RECURSIVE ParserFeed(_, _)
ParserFeed(st, toks) ==
    IF toks = <<>> THEN st ELSE With2(ParserStep(st, toks[1]), Tail(toks), ParserFeed)

\* (\d{4})\s*\.?\s*$ on the authors text: a year as its last word.
extract_year_from_authors(raw) ==
    IF raw # <<>> /\ ParenYear(raw[Len(raw)]) = NoYear
    THEN BareYear(raw[Len(raw)]) ELSE NoYear

\* The first 4-digit number of a text, NoYear if it has none.
FirstYear(s) ==
    LET i == FirstIdx(s, LAMBDA w : BareYear(w) # NoYear)
    IN  IF i = 0 THEN NoYear ELSE BareYear(s[i])

\* The year fallback of parse_html_refs over title, venue, authors_raw.
FieldYear(ref) ==
    LET ys == <<FirstYear(ref.title), FirstYear(ref.venue), FirstYear(ref.authors_raw)>>
        i  == FirstIdx(ys, LAMBDA y : y # NoYear /\ YearLo <= y /\ y <= YearHi)
    IN  IF i = 0 THEN NoYear ELSE ys[i]

ResolveYear(ref) ==
    LET y1 == IF ref.year = NoYear
              THEN extract_year_from_authors(ref.authors_raw) ELSE ref.year
    IN  [ref EXCEPT !.year = IF y1 = NoYear THEN FieldYear(ref) ELSE y1]

parse_html_refs(toks) ==
    With(ParserFeed(ParserInit, toks).refs, LAMBDA refs :
        [i \in 1..Len(refs) |-> With(refs[i], ResolveYear)])

----------------------------------------------------------------------------
(* Matcher (build_ref_db.py match_refs_to_bib) *)

RECURSIVE RStripSlash(_)
\* str.rstrip('/').
RStripSlash(u) ==
    IF u # <<>> /\ u[Len(u)] = "/" THEN RStripSlash(SubSeq(u, 1, Len(u) - 1)) ELSE u

normalize_url(url) ==
    LET u1 == RStripSlash(url)
        u2 == IF u1 # <<>> /\ u1[1] \in {"https://", "http://"} THEN Tail(u1) ELSE u1
        u3 == IF u2 # <<>> /\ u2[1] = "www." THEN Tail(u2) ELSE u2
    IN  LowerSeq(RStripSlash(u3))

normalize_title(title) ==
    SelectSeq([i \in 1..Len(title) |-> WordNorm(title[i])], LAMBDA w : w # "")

\* The longest common block of a and b as difflib's find_longest_match
\* returns it: longest first, then earliest in a, then earliest in b.
LongestMatch(a, b) ==
    With({<<k, i, j>> \in (1..Len(a)) \X (1..Len(a)) \X (1..Len(b)) :
             /\ i + k - 1 <= Len(a)
             /\ j + k - 1 <= Len(b)
             /\ SubSeq(a, i, i + k - 1) = SubSeq(b, j, j + k - 1)},
         LAMBDA blocks :
            IF blocks = {} THEN <<0, 0, 0>>
            ELSE CHOOSE m \in blocks : \A o \in blocks :
                    \/ m[1] > o[1]
                    \/ m[1] = o[1] /\ m[2] < o[2]
                    \/ m[1] = o[1] /\ m[2] = o[2] /\ m[3] <= o[3])

RECURSIVE MatchCount(_, _)
\* Total size of SequenceMatcher's matching blocks.
MatchCount(a, b) ==
    IF a = <<>> \/ b = <<>> THEN 0
    ELSE With(LongestMatch(a, b), LAMBDA m :
            IF m[1] = 0 THEN 0
            ELSE m[1]
                 + With2(SubSeq(a, 1, m[2] - 1), SubSeq(b, 1, m[3] - 1), MatchCount)
                 + With2(SubSeq(a, m[2] + m[1], Len(a)),
                         SubSeq(b, m[3] + m[1], Len(b)), MatchCount))

\* Scores are fractions n/d with d > 0.
Frac(n, d) == [n |-> n, d |-> d]

Gt(x, y) == x.n * y.d > y.n * x.d

Ge(x, y) == x.n * y.d >= y.n * x.d

\* SequenceMatcher(None, a, b).ratio(), taken over the words of a and b.
Ratio(a, b) ==
    IF Len(a) + Len(b) = 0 THEN Frac(1, 1)
    ELSE Frac(2 * With2(a, b, MatchCount), Len(a) + Len(b))

title_similarity(a, b) ==
    With2(normalize_title(a), normalize_title(b), LAMBDA na, nb :
        IF na = <<>> \/ nb = <<>> THEN Frac(0, 1) ELSE Ratio(na, nb))

\* A word of the form \d+\.\d+ .
ArxivIds == {"2301.00001", "2301.00002"}

\* re.search(r'arxiv\.org/abs/(\d+\.\d+)', url); "" is None.
extract_arxiv_id(url) ==
    LET hits == {i \in 1..(Len(url) - 2) :
                    /\ url[i] = "arxiv.org"
                    /\ url[i + 1] = "/abs/"
                    /\ url[i + 2] \in ArxivIds}
    IN  IF hits = {} THEN "" ELSE url[Min(hits) + 2]

\* d[k] = v on an insertion-ordered dict kept as a sequence of pairs.
DictSet(d, k, v) ==
    IF \E i \in 1..Len(d) : d[i].k = k
    THEN [i \in 1..Len(d) |-> IF d[i].k = k THEN [k |-> k, v |-> v] ELSE d[i]]
    ELSE Append(d, [k |-> k, v |-> v])

DictHas(d, k) == \E i \in 1..Len(d) : d[i].k = k

DictGet(d, k) == d[CHOOSE i \in 1..Len(d) : d[i].k = k].v

DictKeys(d) == [i \in 1..Len(d) |-> d[i].k]

\* re.search(r'\\url\{([^}]+)\}', hp): the URL parts between the words
\* "\url{" and "}".
UrlIn(hp) ==
    LET i == FirstIdx(hp, LAMBDA w : w = "\\url{")
        rest == SubSeq(hp, i + 1, Len(hp))
        j == FirstIdx(rest, LAMBDA w : w = "}")
    IN  IF i = 0 \/ j <= 1 THEN <<>> ELSE SubSeq(rest, 1, j - 1)

\* The URL the index gives a bibliography entry.
BibUrl(entry) ==
    IF Get(entry, "url") # <<>> THEN Get(entry, "url")
    ELSE UrlIn(Get(entry, "howpublished"))

\* The bibliography is an insertion-ordered dict: key -> entry.
IndexInit == [url_to_key |-> <<>>, arxiv_to_key |-> <<>>, title_index |-> <<>>]

IndexStep(ix, key, entry) ==
    LET bib_url == BibUrl(entry)
        aid == extract_arxiv_id(bib_url)
        u1 == IF bib_url # <<>>
              THEN With3(ix.url_to_key, normalize_url(bib_url), key, DictSet)
              ELSE ix.url_to_key
        a1 == IF bib_url # <<>> /\ aid # ""
              THEN DictSet(ix.arxiv_to_key, aid, key)
              ELSE ix.arxiv_to_key
        doi == Get(entry, "doi")
        doi_url == <<"doi.org/">> \o doi
        set(d, url) == With3(d, normalize_url(url), key, DictSet)
        u2 == IF doi # <<>>
              THEN set(set(set(u1, doi_url), <<"https://">> \o doi_url),
                       <<"http://", "dx.">> \o doi_url)
              ELSE u1
        title == IF Get(entry, "title") # <<>> THEN Get(entry, "title")
                 ELSE Get(entry, "journal")
        t1 == IF title # <<>>
              THEN Append(ix.title_index, [k |-> normalize_title(title), v |-> key])
              ELSE ix.title_index
    IN  [url_to_key |-> u2, arxiv_to_key |-> a1, title_index |-> t1]

RECURSIVE BuildIndex(_, _)
BuildIndex(ix, bib_entries) ==
    IF bib_entries = <<>> THEN ix
    ELSE With2(IndexStep(ix, bib_entries[1].k, bib_entries[1].v), Tail(bib_entries),
               BuildIndex)

NoMatch == [key |-> <<>>, method |-> "none"]

\* Stage 1: exact URL, arXiv identifier, partial URL.
UrlStage(ref, ix) ==
    With(normalize_url(ref.url), LAMBDA ref_url :
        LET aid == extract_arxiv_id(ref.url)
            p == FirstIdx(ix.url_to_key,
                          LAMBDA e : Contains(e.k, ref_url) \/ Contains(ref_url, e.k))
        IN  IF ref_url = <<>> THEN NoMatch
            ELSE IF DictHas(ix.url_to_key, ref_url)
            THEN [key |-> DictGet(ix.url_to_key, ref_url), method |-> "url"]
            ELSE IF aid # "" /\ DictHas(ix.arxiv_to_key, aid)
            THEN [key |-> DictGet(ix.arxiv_to_key, aid), method |-> "arxiv"]
            ELSE IF p # 0
            THEN [key |-> ix.url_to_key[p].v, method |-> "url-partial"]
            ELSE NoMatch)


TitleAccept == Frac(65, 100)

ContainScore == Frac(95, 100)

AuthorYearAccept == Frac(55, 100)

\* The score of one (candidate, record title) pair of the fuzzy stage;
\* len(ref_norm) > len(bib_norm) * 1.5 is 2 * len(ref_norm) > 3 * len(bib_norm).
FuzzyScore(ref_norm, bib_norm) ==
    IF 2 * CharLen(ref_norm) > 3 * CharLen(bib_norm) /\ CharLen(bib_norm) > 10
       /\ Contains(ref_norm, bib_norm)
    THEN ContainScore
    ELSE Ratio(ref_norm, bib_norm)

\* BestOver, but a record with a score equal to the best replaces it.
RECURSIVE BestOver_ReplacesOnEqual(_, _, _)
\* The inner loop over title_index for one candidate: replace the best pair
\* on a strictly greater score only.
BestOver_ReplacesOnEqual(ref_norm, index, best) ==
    IF index = <<>> THEN best
    ELSE With(FuzzyScore(ref_norm, index[1].k), LAMBDA score :
            With3(ref_norm, Tail(index),
                  IF Ge(score, best.score)
                  THEN [score |-> score, key |-> index[1].v]
                  ELSE best,
                  BestOver_ReplacesOnEqual))

RECURSIVE BestOver(_, _, _)
\* The inner loop over title_index for one candidate: replace the best pair
\* on a strictly greater score only.
BestOver(ref_norm, index, best) ==
    IF index = <<>> THEN best
    ELSE With(FuzzyScore(ref_norm, index[1].k), LAMBDA score :
            With3(ref_norm, Tail(index),
                  IF Gt(score, best.score)
                  THEN [score |-> score, key |-> index[1].v]
                  ELSE best,
                  BestOver))

RECURSIVE BestTitle(_, _, _)
\* The outer loop over the candidate texts.
BestTitle(candidates, index, best) ==
    IF candidates = <<>> THEN best
    ELSE With(normalize_title(candidates[1]), LAMBDA ref_norm :
            With3(Tail(candidates), index,
                  IF ref_norm = <<>> THEN best
                  ELSE BestOver(ref_norm, index, best),
                  BestTitle))

Candidates(ref) ==
    <<ref.title, ref.venue>>
    \o (IF ref.authors_raw # <<>> THEN <<ref.authors_raw>> ELSE <<>>)
    \o (IF ref.all_text # <<>> THEN <<ref.all_text>> ELSE <<>>)

NoBest == [score |-> Frac(0, 1), key |-> <<>>]

\* Stage 2: fuzzy title.
TitleStage(ref, ix) ==
    With(With3(Candidates(ref), ix.title_index, NoBest, BestTitle), LAMBDA best :
        IF Ge(best.score, TitleAccept)
        THEN [key |-> best.key, method |-> "title-fuzzy"]
        ELSE NoMatch)

\* The score of one record in the author+year stage, <<>> when the record
\* is not considered.
AuthorYearScore(ref, entry) ==
    With(parse_bib_authors(Get(entry, "author")), LAMBDA bib_parsed :
        LET main_last == LowerSeq(bib_parsed[1].last)
            ref_title == IF ref.title # <<>> THEN ref.title
                         ELSE IF ref.venue # <<>> THEN ref.venue ELSE ref.all_text
        IN  IF /\ Get(entry, "year") # <<>>
               /\ Get(entry, "year") = <<YearStr(ref.year)>>
               /\ bib_parsed # <<>>
               /\ main_last # <<>>
               /\ \/ Contains(LowerSeq(ref.authors_raw), main_last)
                  \/ Contains(LowerSeq(ref.all_text), main_last)
            THEN With(title_similarity(ref_title, Get(entry, "title")),
                      LAMBDA tscore : <<Frac(tscore.d + tscore.n, 2 * tscore.d)>>)
            ELSE <<>>)

RECURSIVE BestAuthorYear(_, _, _)
BestAuthorYear(ref, bib_entries, best) ==
    IF bib_entries = <<>> THEN best
    ELSE With(AuthorYearScore(ref, bib_entries[1].v), LAMBDA sc :
            With3(ref, Tail(bib_entries),
                  IF sc # <<>> /\ Gt(sc[1], best.score)
                  THEN [score |-> sc[1], key |-> bib_entries[1].k]
                  ELSE best,
                  BestAuthorYear))

\* Stage 3: author + year.
AuthorYearStage(ref, bib_entries) ==
    With(BestAuthorYear(ref, bib_entries, NoBest), LAMBDA best :
        IF best.key # <<>> /\ Ge(best.score, AuthorYearAccept)
        THEN [key |-> best.key, method |-> "author-year"]
        ELSE NoMatch)

\* What a stage leaves in matched_key and method: its own match, or what
\* the earlier stages left when it assigns nothing.
Assigned(m, prev) == IF m.method = "none" THEN prev ELSE m

\* One iteration of the loop over html_refs: the cascade for one entry.
\* "not matched_key" holds for None and for the empty key alike.
MatchOne(ref, ix, bib_entries) ==
    With(UrlStage(ref, ix), LAMBDA m1 :
        With(IF m1.key = <<>> THEN Assigned(TitleStage(ref, ix), m1) ELSE m1, LAMBDA m2 :
            IF m2.key = <<>> /\ ref.year # NoYear
            THEN Assigned(AuthorYearStage(ref, bib_entries), m2)
            ELSE m2))

\* match_refs_to_bib, but a record of the bibliography is given to one entry
\* only: a later entry that resolves to the same key is left unmatched.
match_refs_to_bib_Consuming(html_refs, bib_entries) ==
    With(BuildIndex(IndexInit, bib_entries), LAMBDA ix :
        With([i \in 1..Len(html_refs) |->
                With(html_refs[i], LAMBDA ref : MatchOne(ref, ix, bib_entries))],
             LAMBDA r :
                [i \in 1..Len(r) |->
                    IF \E j \in 1..(i - 1) : r[j].key = r[i].key
                    THEN NoMatch ELSE r[i]]))

\* A list of [key, method] in the order of html_refs; key <<>> is None.
match_refs_to_bib(html_refs, bib_entries) ==
    With(BuildIndex(IndexInit, bib_entries), LAMBDA ix :
        [i \in 1..Len(html_refs) |->
            With(html_refs[i], LAMBDA ref : MatchOne(ref, ix, bib_entries))])

----------------------------------------------------------------------------
(* Builder (build_ref_db.py build_databases) *)

StopWords == {"the", "a", "an", "of", "in", "on", "for", "and", "to", "from", "with"}

\* The key is the sequence of the parts the f-string concatenates, empty
\* parts left out; str(None) is "None".
_make_synthetic_key(ref, chapter_slug) ==
    LET surname == IF ref.authors_raw # <<>> /\ CapPrefix(ref.authors_raw[1]) # ""
                   THEN CapPrefix(ref.authors_raw[1]) ELSE "unknown"
        title == IF ref.title # <<>> THEN ref.title ELSE ref.venue
        i == FirstIdx(title, LAMBDA w : WordNorm(w) # "" /\ WordNorm(w) \notin StopWords)
        title_word == IF i = 0 THEN "" ELSE WordNorm(title[i])
    IN  SelectSeq(<<surname, YearStr(ref.year), title_word>>, LAMBDA w : w # "")

\* re.sub(r'\s*\d{4}\s*\.?\s*$', '', authors_raw): a trailing year removed.
StripTrailingYear(raw) ==
    IF extract_year_from_authors(raw) # NoYear THEN SubSeq(raw, 1, Len(raw) - 1) ELSE raw

_make_synthetic_entry(ref) ==
    LET entry == [f \in {"author", "title", "year", "url", "_type"} |->
                    CASE f = "author" -> StripTrailingYear(ref.authors_raw)
                      [] f = "title" -> ref.title
                      [] f = "year" -> IF ref.year # NoYear THEN <<YearStr(ref.year)>> ELSE <<>>
                      [] f = "url" -> ref.url
                      [] f = "_type" -> <<"misc">>]
    IN  IF ref.venue # <<>> THEN Update(entry, [f \in {"journal"} |-> ref.venue]) ELSE entry

\* The state of the loop over CHAPTER_FILES; all_matches and html_urls are
\* insertion-ordered dicts.
ScanInit == [chapter_map |-> [s \in {} |-> EmptyMap], all_matches |-> <<>>, html_urls |-> <<>>]

\* ScanRef, but an unmatched entry gets no synthetic entry in all_matches.
ScanRef_NoSyntheticEntry(acc, slug, ref, m, bib_entries) ==
    With(IF m.key # <<>> THEN m.key ELSE _make_synthetic_key(ref, slug), LAMBDA key :
        [chapter_map |-> [acc.chapter_map EXCEPT
                             ![slug] = Update(@, [n \in {ref.num} |-> key])],
         all_matches |-> IF m.key # <<>>
                         THEN DictSet(acc.all_matches, key, DictGet(bib_entries, m.key))
                         ELSE acc.all_matches,
         html_urls |-> IF m.key # <<>> /\ ref.url # <<>> /\ ~DictHas(acc.html_urls, key)
                       THEN DictSet(acc.html_urls, key, ref.url)
                       ELSE acc.html_urls])

\* One iteration of the loop over the matches of a document.
ScanRef(acc, slug, ref, m, bib_entries) ==
    With2(IF m.key # <<>> THEN m.key ELSE _make_synthetic_key(ref, slug),
          IF m.key # <<>> THEN DictGet(bib_entries, m.key) ELSE _make_synthetic_entry(ref),
          LAMBDA key, entry :
        [chapter_map |-> [acc.chapter_map EXCEPT
                             ![slug] = Update(@, [n \in {ref.num} |-> key])],
         all_matches |-> DictSet(acc.all_matches, key, entry),
         html_urls |-> IF m.key # <<>> /\ ref.url # <<>> /\ ~DictHas(acc.html_urls, key)
                       THEN DictSet(acc.html_urls, key, ref.url)
                       ELSE acc.html_urls])

RECURSIVE ScanRefs(_, _, _, _, _)
ScanRefs(acc, slug, refs, matches, bib_entries) ==
    IF refs = <<>> THEN acc
    ELSE With3(ScanRef(acc, slug, refs[1], matches[1], bib_entries),
               Tail(refs), Tail(matches),
               LAMBDA acc1, refs1, matches1 :
                   ScanRefs(acc1, slug, refs1, matches1, bib_entries))

RECURSIVE ScanChapters(_, _, _, _)
ScanChapters(acc, files, docs, bib_entries) ==
    IF files = <<>> THEN acc
    ELSE With3(files[1], With(docs[files[1]], parse_html_refs),
               [acc EXCEPT !.chapter_map = Update(@, [s \in {files[1]} |-> EmptyMap])],
               LAMBDA slug, refs, acc0 :
            With(match_refs_to_bib(refs, bib_entries), LAMBDA matches :
                With2(ScanRefs(acc0, slug, refs, matches, bib_entries), Tail(files),
                      LAMBDA acc1, files1 :
                          ScanChapters(acc1, files1, docs, bib_entries))))

\* The year of a record: an integer, null, or the string the entry had.
YInt(y) == [tag |-> "int", v |-> y]

YNull == [tag |-> "null", v |-> 0]

YStr == [tag |-> "str", v |-> 0]

RecordYear(entry) ==
    IF "year" \notin DOMAIN entry THEN YNull
    ELSE IF entry["year"] = <<>> THEN YStr
    ELSE IF FirstYear(entry["year"]) # NoYear THEN YInt(FirstYear(entry["year"]))
    ELSE YNull

DoiPrefix == <<"https://", "doi.org/">>

\* The url of a record; <<>> is None.
RecordUrl(entry, bib_key, html_urls) ==
    LET doi == Get(entry, "doi")
        bare == IF Len(doi) >= 2 /\ SubSeq(doi, 1, 2) = DoiPrefix
                THEN SubSeq(doi, 3, Len(doi)) ELSE doi
    IN  IF BibUrl(entry) # <<>> THEN BibUrl(entry)
        ELSE IF DictHas(html_urls, bib_key) THEN DictGet(html_urls, bib_key)
        ELSE IF doi # <<>> THEN DoiPrefix \o bare
        ELSE <<>>

AuthorKeys(entry) ==
    LET parsed == parse_bib_authors(Get(entry, "author"))
    IN  [i \in 1..Len(parsed) |-> make_author_key(parsed[i].first, parsed[i].last)]

BuilderFields == {"title", "authors", "year", "venue", "venueShort", "url", "doi", "type"}

\* The fields base.update() writes.
CoreFields(entry, bib_key, html_urls) ==
    [f \in BuilderFields |->
        CASE f = "title" ->
                _clean_latex(IF Get(entry, "title") # <<>> THEN Get(entry, "title")
                             ELSE Get(entry, "journal"))
          [] f = "authors" -> AuthorKeys(entry)
          [] f = "year" -> RecordYear(entry)
          [] f = "venue" -> bib_venue(entry)
          [] f = "venueShort" -> bib_venue_short(entry)
          [] f = "url" -> RecordUrl(entry, bib_key, html_urls)
          [] f = "doi" -> Get(entry, "doi")
          [] f = "type" -> classify_bib_type(entry)]

\* MergeBase, but every record starts from an empty one.
MergeBase_Fresh(existing_refs, bib_key) == EmptyMap

\* base = existing_refs.get(bib_key, {}).
MergeBase(existing_refs, bib_key) ==
    IF bib_key \in DOMAIN existing_refs THEN existing_refs[bib_key] ELSE EmptyMap

\* MergeRecord, but the author keys are added to those of the prior record.
MergeRecord_AppendsAuthors(existing_refs, bib_key, entry, html_urls) ==
    With2(MergeBase(existing_refs, bib_key), CoreFields(entry, bib_key, html_urls),
          LAMBDA prior, core :
        With(Update(prior, [core EXCEPT !["authors"] =
                               (IF "authors" \in DOMAIN prior
                                THEN prior["authors"] ELSE <<>>) \o @]),
             LAMBDA base :
                IF "screenshot" \notin DOMAIN base
                THEN Update(base, [f \in {"screenshot"} |-> "null"])
                ELSE base))

\* One record of references.json.
MergeRecord(existing_refs, bib_key, entry, html_urls) ==
    With2(MergeBase(existing_refs, bib_key), CoreFields(entry, bib_key, html_urls),
          LAMBDA prior, core :
        With(Update(prior, core), LAMBDA base :
            IF "screenshot" \notin DOMAIN base
            THEN Update(base, [f \in {"screenshot"} |-> "null"])
            ELSE base))

\* The keys the references loop writes.
WrittenKeys(all_matches) == Range(DictKeys(all_matches))

BuildReferences(all_matches, html_urls, existing_refs) ==
    [k \in WrittenKeys(all_matches) |->
        With(DictGet(all_matches, k),
             LAMBDA entry : MergeRecord(existing_refs, k, entry, html_urls))]

NewAuthor(first, last) ==
    [displayName |-> make_display_name(first, last), affiliation |-> "null",
     headshot |-> "null", links |-> {}]

\* if akey and akey not in authors.
AddsAuthor(akey, acc) == akey # <<>> /\ akey \notin DOMAIN acc

\* AuthorStep, but the record of a key that had one keeps its display name.
AuthorStep_KeepsDisplayName(acc, a, existing_authors) ==
    With(make_author_key(a.first, a.last), LAMBDA akey :
        IF AddsAuthor(akey, acc)
        THEN Update(acc, [k \in {akey} |->
                IF akey \in DOMAIN existing_authors
                THEN existing_authors[akey]
                ELSE NewAuthor(a.first, a.last)])
        ELSE acc)

\* One iteration of the loop over the parsed authors of an entry.
AuthorStep(acc, a, existing_authors) ==
    With(make_author_key(a.first, a.last), LAMBDA akey :
        IF AddsAuthor(akey, acc)
        THEN Update(acc, [k \in {akey} |->
                IF akey \in DOMAIN existing_authors
                THEN [existing_authors[akey] EXCEPT
                         !.displayName = make_display_name(a.first, a.last)]
                ELSE NewAuthor(a.first, a.last)])
        ELSE acc)

RECURSIVE AuthorsOf(_, _, _)
AuthorsOf(acc, parsed, existing_authors) ==
    IF parsed = <<>> THEN acc
    ELSE With3(AuthorStep(acc, parsed[1], existing_authors), Tail(parsed),
               existing_authors, AuthorsOf)

RECURSIVE BuildAuthors(_, _, _)
BuildAuthors(acc, all_matches, existing_authors) ==
    IF all_matches = <<>> THEN acc
    ELSE With(parse_bib_authors(Get(all_matches[1].v, "author")), LAMBDA parsed :
            With3(AuthorsOf(acc, parsed, existing_authors), Tail(all_matches),
                  existing_authors, BuildAuthors))

\* The three stores build_databases writes, from the sources and the
\* stores found on disk.
build_databases(bib_entries, docs, existing_refs, existing_authors) ==
    With(ScanChapters(ScanInit, CHAPTER_FILES, docs, bib_entries), LAMBDA scan :
        [chapter_map |-> scan.chapter_map,
         references |-> BuildReferences(scan.all_matches, scan.html_urls, existing_refs),
         authors |-> BuildAuthors(EmptyMap, scan.all_matches, existing_authors)])

----------------------------------------------------------------------------
(* Dedup and renumber engine (dedup_refs.py) *)

\* redirects: duplicate number -> lowest number of its key; its domain is
\* entries_to_remove.
build_redirect_map(chapter_map_entry) ==
    LET nums(key) == {n \in DOMAIN chapter_map_entry : chapter_map_entry[n] = key}
        dup == {n \in DOMAIN chapter_map_entry :
                   n # Min(nums(chapter_map_entry[n]))}
    IN  [n \in dup |-> Min(nums(chapter_map_entry[n]))]

\* build_renumber_map, but the numbers to remove keep their place in the
\* numbering.
build_renumber_map_KeepsRemoved(all_nums, entries_to_remove) ==
    With(Sorted(all_nums), LAMBDA remaining :
        [old \in Range(remaining) |->
            CHOOSE new \in 1..Len(remaining) : remaining[new] = old])

build_renumber_map(all_nums, entries_to_remove) ==
    With(Sorted(all_nums \ entries_to_remove), LAMBDA remaining :
        [old \in Range(remaining) |->
            CHOOSE new \in 1..Len(remaining) : remaining[new] = old])

\* Step 2 of process_chapter: the final number of every number of the map.
FinalMap(chapter_map_entry) ==
    With(build_redirect_map(chapter_map_entry), LAMBDA redirects :
        With(build_renumber_map(DOMAIN chapter_map_entry, DOMAIN redirects),
             LAMBDA renumber :
                [old \in DOMAIN chapter_map_entry |->
                    IF old \in DOMAIN redirects THEN renumber[redirects[old]]
                    ELSE renumber[old]]))

\* re.sub on href="#ref-N".
replace_citation(tok, final_map) ==
    IF tok.t = "a" /\ tok.n \in DOMAIN final_map
    THEN [tok EXCEPT !.n = final_map[tok.n]] ELSE tok

\* re.sub on id="ref-N": mark with the sentinel, or renumber.
replace_li_id(tok, entries_to_remove, renumber) ==
    IF tok.t # "li" \/ ~tok.dq THEN tok
    ELSE IF tok.n \in entries_to_remove THEN [tok EXCEPT !.rm = TRUE]
    ELSE IF tok.n \in DOMAIN renumber THEN [tok EXCEPT !.n = renumber[tok.n]]
    ELSE tok

\* Where the removal patterns match: the leftmost '<li __REMOVE__id=' that
\* has a '</li>' somewhere after it; 0 when they do not match.
Located(toks) ==
    FirstIdx([i \in 1..Len(toks) |-> i],
             LAMBDA i : /\ toks[i].t = "li" /\ toks[i].rm /\ toks[i].first
                        /\ \E j \in (i + 1)..Len(toks) : toks[j].t = "/li")

RECURSIVE RemoveMarked(_, _)
\* The while '__REMOVE__' in html loop; warned counts the WARNING lines.
RemoveMarked(toks, warned) ==
    IF ~\E i \in 1..Len(toks) : toks[i].rm THEN [html |-> toks, warned |-> warned]
    ELSE With(Located(toks), LAMBDA i :
            LET j == Min({k \in (i + 1)..Len(toks) : toks[k].t = "/li"})
                m == Min({k \in 1..Len(toks) : toks[k].rm})
            IN  IF i # 0
                THEN With2(SubSeq(toks, 1, i - 1) \o SubSeq(toks, j + 1, Len(toks)),
                           warned, RemoveMarked)
                ELSE With2([toks EXCEPT ![m].rm = FALSE], warned + 1, RemoveMarked))

\* process_chapter, but a run that cannot find a marked block stops
\* before it writes the file.
process_chapter_AbortsOnWarning(toks, chapter_map_entry) ==
    With3(DOMAIN build_redirect_map(chapter_map_entry), DOMAIN chapter_map_entry,
          FinalMap(chapter_map_entry),
          LAMBDA entries_to_remove, all_nums, final_map :
        With(build_renumber_map(all_nums, entries_to_remove), LAMBDA renumber :
            IF entries_to_remove = {} /\ \A old \in all_nums : renumber[old] = old
            THEN [changed |-> FALSE, html |-> toks, warned |-> 0]
            ELSE With([i \in 1..Len(toks) |->
                          replace_li_id(replace_citation(toks[i], final_map),
                                        entries_to_remove, renumber)],
                      LAMBDA marked :
                    With(RemoveMarked(marked, 0), LAMBDA out :
                        IF out.warned > 0
                        THEN [changed |-> FALSE, html |-> toks, warned |-> out.warned]
                        ELSE [changed |-> TRUE, html |-> out.html, warned |-> 0]))))

\* changed is the return value, html the file content afterwards.
process_chapter(toks, chapter_map_entry) ==
    With3(DOMAIN build_redirect_map(chapter_map_entry), DOMAIN chapter_map_entry,
          FinalMap(chapter_map_entry),
          LAMBDA entries_to_remove, all_nums, final_map :
        With(build_renumber_map(all_nums, entries_to_remove), LAMBDA renumber :
            IF entries_to_remove = {} /\ \A old \in all_nums : renumber[old] = old
            THEN [changed |-> FALSE, html |-> toks, warned |-> 0]
            ELSE With([i \in 1..Len(toks) |->
                          replace_li_id(replace_citation(toks[i], final_map),
                                        entries_to_remove, renumber)],
                      LAMBDA marked :
                    With(RemoveMarked(marked, 0), LAMBDA out :
                        [changed |-> TRUE, html |-> out.html, warned |-> out.warned]))))

\* chapter_map.get(slug, {}).
MapOf(cm, slug) == IF slug \in DOMAIN cm THEN cm[slug] ELSE EmptyMap

----------------------------------------------------------------------------
(* Auditor (audit_refs.py) *)

AuditParserInit ==
    [in_ref_section |-> FALSE, in_ol |-> FALSE, depth |-> 0, current_ref |-> <<>>,
     citations |-> <<>>, ref_entries |-> <<>>, ref_entry_data |-> EmptyMap]

\* The first link of an entry that starts with http; <<>> when it has none.
HttpUrl(c) ==
    LET url == RefText[c].url
    IN  IF url # <<>> /\ url[1] \in {"https://", "http://"} THEN url ELSE <<>>

\* AuditParserStep, but an entry is counted at its end tag, as the builder's
\* parser does.
AuditParserStep_EntryAtEndTag(st, tok) ==
    CASE tok.t = "a" -> [st EXCEPT !.citations = Append(@, tok.n)]
      [] tok.t = "section" ->
            IF tok.refs THEN [st EXCEPT !.in_ref_section = TRUE, !.depth = 1]
            ELSE IF st.in_ref_section THEN [st EXCEPT !.depth = @ + 1]
            ELSE st
      [] tok.t = "ol" ->
            IF st.in_ref_section /\ ~st.in_ol THEN [st EXCEPT !.in_ol = TRUE] ELSE st
      [] tok.t = "li" ->
            IF st.in_ref_section /\ st.in_ol
            THEN [st EXCEPT !.current_ref = <<[num |-> tok.n, url |-> HttpUrl(tok.c)]>>]
            ELSE st
      [] tok.t = "/section" ->
            IF ~st.in_ref_section THEN st
            ELSE IF st.depth - 1 <= 0
            THEN [st EXCEPT !.depth = @ - 1, !.in_ref_section = FALSE, !.in_ol = FALSE]
            ELSE [st EXCEPT !.depth = @ - 1]
      [] tok.t = "/li" ->
            IF st.in_ref_section /\ st.current_ref # <<>>
            THEN [st EXCEPT
                     !.ref_entries = Append(@, st.current_ref[1].num),
                     !.ref_entry_data =
                         Update(@, [n \in {st.current_ref[1].num} |-> st.current_ref[1]]),
                     !.current_ref = <<>>]
            ELSE st
      [] OTHER -> st

\* CitationExtractor.handle_starttag and handle_endtag on one token.
AuditParserStep(st, tok) ==
    CASE tok.t = "a" -> [st EXCEPT !.citations = Append(@, tok.n)]
      [] tok.t = "section" ->
            IF tok.refs THEN [st EXCEPT !.in_ref_section = TRUE, !.depth = 1]
            ELSE IF st.in_ref_section THEN [st EXCEPT !.depth = @ + 1]
            ELSE st
      [] tok.t = "ol" ->
            IF st.in_ref_section /\ ~st.in_ol THEN [st EXCEPT !.in_ol = TRUE] ELSE st
      [] tok.t = "li" ->
            IF st.in_ref_section /\ st.in_ol
            THEN [st EXCEPT !.ref_entries = Append(@, tok.n),
                            !.current_ref = <<[num |-> tok.n, url |-> HttpUrl(tok.c)]>>]
            ELSE st
      [] tok.t = "/section" ->
            IF ~st.in_ref_section THEN st
            ELSE IF st.depth - 1 <= 0
            THEN [st EXCEPT !.depth = @ - 1, !.in_ref_section = FALSE, !.in_ol = FALSE]
            ELSE [st EXCEPT !.depth = @ - 1]
      [] tok.t = "/li" ->
            IF st.in_ref_section /\ st.current_ref # <<>>
            THEN [st EXCEPT
                     !.ref_entry_data =
                         Update(@, [n \in {st.current_ref[1].num} |-> st.current_ref[1]]),
                     !.current_ref = <<>>]
            ELSE st
      [] OTHER -> st

RECURSIVE AuditParserFeed(_, _)
AuditParserFeed(st, toks) ==
    IF toks = <<>> THEN st
    ELSE With2(AuditParserStep(st, toks[1]), Tail(toks), AuditParserFeed)

parse_chapter(toks) == AuditParserFeed(AuditParserInit, toks)

\* One line of issues or warnings: what is reported, and about which
\* document and number, or which key.
Msg(kind, slug, num, key) == [kind |-> kind, slug |-> slug, num |-> num, key |-> key]

\* re.sub(r'^https?://(www\.)?', '', url).rstrip('/'), lower-cased.
AuditUrl(url) ==
    LET u1 == IF url # <<>> /\ url[1] \in {"https://", "http://"} THEN Tail(url) ELSE url
        u2 == IF u1 # url /\ u1 # <<>> /\ u1[1] = "www." THEN Tail(u1) ELSE u1
    IN  LowerSeq(RStripSlash(u2))

\* Check 1: cited but no entry.
\* Dangling, but no cited number is reported.
Dangling_Unchecked(cited_nums, entry_nums) == {}

Dangling(cited_nums, entry_nums) == cited_nums \ entry_nums

\* InMapNotHtml, but the direction from the map to the markup is not checked.
InMapNotHtml_Unchecked(entry_nums, cm_nums) == {}

\* Check 4, second direction: in the map but no entry.
InMapNotHtml(entry_nums, cm_nums) == cm_nums \ entry_nums

\* Check 6: the entries whose link and record URL disagree.
UrlMismatch(entry_nums, ref_entry_data, cm, references_) ==
    {n \in entry_nums :
        /\ n \in DOMAIN cm /\ cm[n] # <<>> /\ cm[n] \in DOMAIN references_
        /\ n \in DOMAIN ref_entry_data
        /\ With2(ref_entry_data[n].url, Get(references_[cm[n]], "url"),
                 LAMBDA html_url, json_url :
                    /\ html_url # <<>> /\ json_url # <<>>
                    /\ With2(AuditUrl(html_url), AuditUrl(json_url), LAMBDA h, j :
                           h # j /\ ~Contains(j, h) /\ ~Contains(h, j)))}

\* The per-chapter checks 1 to 6 for one document.
ChapterChecks(slug, toks, cm, references_) ==
    With(With(toks, parse_chapter), LAMBDA parser :
        With3(Range(parser.citations), Range(parser.ref_entries), DOMAIN cm,
              LAMBDA cited_nums, entry_nums, cm_nums :
            [errors |->
                {Msg("dangling", slug, n, <<>>) : n \in Dangling(cited_nums, entry_nums)}
                \cup {Msg("html-not-map", slug, n, <<>>) : n \in entry_nums \ cm_nums}
                \cup {Msg("map-not-html", slug, n, <<>>) :
                          n \in InMapNotHtml(entry_nums, cm_nums)}
                \cup {Msg("key-missing", slug, n, cm[n]) :
                          n \in {m \in cm_nums : cm[m] \notin DOMAIN references_}},
             warnings |->
                {Msg("orphaned", slug, n, <<>>) : n \in entry_nums \ cited_nums}
                \cup {Msg("gap", slug, n, <<>>) :
                          n \in IF entry_nums = {} THEN {}
                                ELSE (1..Max(entry_nums)) \ entry_nums}
                \cup {Msg("url-mismatch", slug, n, <<>>) :
                          n \in UrlMismatch(entry_nums, parser.ref_entry_data, cm,
                                            references_)}]))

\* missing_url[:10] is reported key by key, the rest as one count.
UrlWarnCap == 10

\* "not ref.get('year')": null and the empty string.
NoYearIn(ref) == ref["year"].tag # "int"

\* The global checks 7 to 10.
GlobalChecks(cmap, references_, authors_) ==
    LET keys == DOMAIN references_
        missing_url == {k \in keys : Get(references_[k], "url") = <<>>}
        reported == IF Cardinality(missing_url) <= UrlWarnCap THEN missing_url
                    ELSE CHOOSE S \in SUBSET missing_url : Cardinality(S) = UrlWarnCap
        places == {<<s, n>> \in Slugs \X UNION {DOMAIN cmap[s] : s \in DOMAIN cmap} :
                      s \in DOMAIN cmap /\ n \in DOMAIN cmap[s]}
        referenced == {cmap[p[1]][p[2]] : p \in places}
        shared == {k \in referenced :
                      Cardinality({p \in places : cmap[p[1]][p[2]] = k}) > 1}
    IN  [errors |->
            {Msg("no-title", "", 0, k) : k \in {r \in keys : Get(references_[r], "title") = <<>>}}
            \cup {Msg("no-displayName", "", 0, a) :
                      a \in {b \in DOMAIN authors_ : authors_[b].displayName = <<>>}},
         warnings |->
            {Msg("no-year", "", 0, k) : k \in {r \in keys : NoYearIn(references_[r])}}
            \cup {Msg("no-authors", "", 0, k) :
                      k \in {r \in keys : Get(references_[r], "authors") = <<>>}}
            \cup {Msg("no-url", "", 0, k) : k \in reported}
            \cup (IF Cardinality(missing_url) > UrlWarnCap
                  THEN {Msg("no-url-more", "", Cardinality(missing_url) - UrlWarnCap, <<>>)}
                  ELSE {})
            \cup {Msg("unreferenced", "", 0, k) : k \in keys \ referenced}
            \cup {Msg("shared-no-title", "", 0, k) :
                      k \in {r \in shared :
                                r \notin keys \/ Get(references_[r], "title") = <<>>}}]

\* sys.exit(1 if errors else 0).
ExitStatus(errors) == IF errors # {} THEN 1 ELSE 0

\* run_audit and the exit of the script: the messages (as sets; the order
\* of the two lists is not modelled) and the exit status.
run_audit(cmap, references_, authors_, docs) ==
    With2([s \in Slugs |-> ChapterChecks(s, docs[s], MapOf(cmap, s), references_)],
          GlobalChecks(cmap, references_, authors_),
          LAMBDA per, global :
            With2(UNION {per[s].errors : s \in Slugs} \cup global.errors,
                  UNION {per[s].warnings : s \in Slugs} \cup global.warnings,
                  LAMBDA errors, warnings :
                    [errors |-> errors, warnings |-> warnings,
                     status |-> ExitStatus(errors)]))

\* No audit has run.
NoAudit == [errors |-> {}, warnings |-> {}, status |-> 0]

----------------------------------------------------------------------------
(* Sources: bibliographies and documents *)

KeySmith == <<"smith", "2020", "foo">>

KeyMing == <<"li", "2021", "deep">>

Entry(type, author, title, year, url) ==
    [f \in {"_type", "author", "title", "year", "url"} |->
        CASE f = "_type" -> <<type>> [] f = "author" -> author
          [] f = "title" -> title [] f = "year" -> <<year>> [] f = "url" -> url]

EntrySmith ==
    Update(Entry("article", <<"Smith", ",", "J.">>, <<"Foo", "Bar">>, "2020", UrlAbs),
           [f \in {"journal"} |-> <<"JMLR">>])

\* The same entry after an edit of the bibliography: braces added to the
\* title, the journal dropped, and the author written twice, first without
\* the period of the initial.
EntrySmithEdited ==
    Entry("article", <<"Smith", ",", "J", "and", "Smith", ",", "J.">>,
          <<"{", "Foo", "}", "Bar", "Nets">>, "2020", UrlAbs)

\* An entry whose only author is written in non-ASCII letters.
EntryMing == Entry("misc", <<"U+674E", "U+660E">>, <<"Deep", "Nets">>, "2021", UrlDeep)

BibEntry(k, v) == [k |-> k, v |-> v]

BibPool ==
    {<<BibEntry(KeySmith, EntrySmith), BibEntry(KeyMing, EntryMing)>>,
     <<BibEntry(KeySmith, EntrySmithEdited), BibEntry(KeyMing, EntryMing)>>}

\* The markup of one reference-list entry: "plain" is <li id="ref-n">..</li>,
\* "attr" has another attribute before the id, "open" omits the end tag.
Forms == {"plain", "attr", "open"}

\* "quoted" is <li id='ref-n'>..</li>.
LiMarkup(n, c, form) ==
    IF form = "open" THEN <<TLi(n, TRUE, c)>>
    ELSE IF form = "quoted" THEN <<[TLi(n, TRUE, c) EXCEPT !.dq = FALSE], TEndLi>>
    ELSE <<TLi(n, form = "plain", c), TEndLi>>

RECURSIVE Flatten(_)
Flatten(ss) == IF ss = <<>> THEN <<>> ELSE ss[1] \o Flatten(Tail(ss))

\* A chapter file: citation markers in the body, then the reference list.
Doc(cites, lis) ==
    [i \in 1..Len(cites) |-> TA(cites[i])]
    \o <<TSection(TRUE), TOl>> \o Flatten(lis) \o <<TEndOl, TEndSection>>

\* Entries numbered 1..k in the plain form, with the given contents.
PlainDoc(cs) == Doc(<<>>, [i \in 1..Len(cs) |-> LiMarkup(i, cs[i], "plain")])

MaxRefs == 2

\* What the reference list of each chapter may hold: index up to MaxRefs
\* entries; chapter2 cites the Smith paper by its PDF link, and the paper
\* whose author is written in non-ASCII letters.
Allowed(slug) ==
    IF slug = "index"
    THEN SeqsUpTo({"smith_abs", "doe"}, MaxRefs)
    ELSE {<<"smith_pdf", "ming">>}

DocsOf(slug) == {PlainDoc(cs) : cs \in Allowed(slug)}

----------------------------------------------------------------------------
(* What the documents and stores say, for the properties *)

\* The numbers of the <li id="ref-N"> tags of a document, in order.
EntryNums(toks) ==
    LET lis == SelectSeq(toks, LAMBDA t : t.t = "li")
    IN  [i \in 1..Len(lis) |-> lis[i].n]

\* The numbers the citation markers of a document point to, in order.
CiteNums(toks) ==
    LET as == SelectSeq(toks, LAMBDA t : t.t = "a")
    IN  [i \in 1..Len(as) |-> as[i].n]

NoDup(s) == \A i, j \in 1..Len(s) : s[i] = s[j] => i = j

----------------------------------------------------------------------------
(* Operations *)

\* The store files in the order build_databases writes them.
Stores == <<"chapter-map", "references", "authors">>

\* A builder run between its first open(..., "w") and its last json.dump:
\* mem, the three dicts it has computed; next, the index in Stores of the
\* file it writes next; opened, that file is open for writing; partial, the
\* files on disk that hold a cut-off text.
NoRun == [mem |-> <<>>, next |-> 0, opened |-> FALSE, partial |-> {}]

\* The operation that ran last. For a dedup run: warned, per document the
\* WARNING lines it logged, and html, the documents as the run found them.
\* again: the operation is a builder run that directly follows a builder run.
\* run: where a builder run that writes its stores file by file stands.
\* audit: what an audit run reported and how it exited.
\* before: for a builder or dedup run, what the two operations before it
\* were, the last one first.
NoOp ==
    [name |-> "init", warned |-> [s \in Slugs |-> 0], html |-> <<>>, again |-> FALSE,
     run |-> NoRun, audit |-> NoAudit, before |-> <<>>]

Idle == <<>>

FunctionsIdle ==
    /\ bibText = Idle /\ bibParsed = Idle
    /\ mref = Idle /\ mbib = Idle /\ mres = Idle

\* The operation that ran last; for a dedup run with what it logged and
\* wrote: a WARNING, a changed document, or neither.
LastRun ==
    IF op.name # "dedup" THEN op.name
    ELSE IF \E s \in Slugs : op.warned[s] > 0 THEN "dedup-warned"
    ELSE IF op.html # html THEN "dedup-changed"
    ELSE "dedup-same"

History == <<LastRun>> \o (IF op.before = <<>> THEN <<>> ELSE <<op.before[1]>>)

\* python build_ref_db.py
Build ==
    \E out \in {build_databases(bib, html, references, authors)} :
        /\ chapter_map' = out.chapter_map
        /\ references' = out.references
        /\ authors' = out.authors
        /\ op' = [NoOp EXCEPT !.name = "build", !.again = (op.name = "build"),
                               !.before = History]
        /\ UNCHANGED <<bib, html, bibText, bibParsed, mref, mbib, mres>>

\* python dedup_refs.py: main() over CHAPTER_FILES; it opens
\* chapter-map.json first and raises when the file does not exist.
Dedup ==
    \E out \in {[s \in Slugs |->
                    With2(html[s], MapOf(chapter_map, s), process_chapter)]} :
        /\ DOMAIN chapter_map # {}
        /\ html' = [s \in Slugs |-> out[s].html]
        /\ op' = [NoOp EXCEPT !.name = "dedup", !.html = html,
                               !.warned = [s \in Slugs |-> out[s].warned],
                               !.before = History]
        /\ UNCHANGED <<bib, chapter_map, references, authors,
                       bibText, bibParsed, mref, mbib, mres>>

\* collect_screenshots.py stores the screenshot of one record.
CollectScreenshot ==
    \E k \in DOMAIN references :
        /\ references[k]["screenshot"] = "null"
        /\ references' = [references EXCEPT ![k] =
                             Update(@, [f \in {"screenshot"} |-> "shot.jpg"])]
        /\ op' = [NoOp EXCEPT !.name = "other"]
        /\ UNCHANGED <<bib, html, chapter_map, authors,
                       bibText, bibParsed, mref, mbib, mres>>

\* enrich_authors.py stores the affiliation of one author.
EnrichAuthor ==
    \E a \in DOMAIN authors :
        /\ authors[a].affiliation = "null"
        /\ authors' = [authors EXCEPT ![a].affiliation = "MIT"]
        /\ op' = [NoOp EXCEPT !.name = "other"]
        /\ UNCHANGED <<bib, html, chapter_map, references,
                       bibText, bibParsed, mref, mbib, mres>>

\* The contents of the entries of a document, in order.
ContentsOf(toks) ==
    LET lis == SelectSeq(toks, LAMBDA t : t.t = "li")
    IN  [i \in 1..Len(lis) |-> lis[i].c]

\* An author edits a chapter file: the last entry of the reference list is
\* dropped, or an entry is added at its end.
EditDocument ==
    \E s \in Slugs : \E cs \in Allowed(s) :
        /\ \/ \E c \in ContentIds : cs = Append(ContentsOf(html[s]), c)
           \/ /\ ContentsOf(html[s]) # <<>>
              /\ cs = SubSeq(ContentsOf(html[s]), 1, Len(ContentsOf(html[s])) - 1)
        /\ html' = [html EXCEPT ![s] = PlainDoc(cs)]
        /\ op' = [NoOp EXCEPT !.name = "other"]
        /\ UNCHANGED <<bib, chapter_map, references, authors,
                       bibText, bibParsed, mref, mbib, mres>>

\* An author edits references.bib.
EditBibliography ==
    \E b \in BibPool :
        /\ b # bib
        /\ bib' = b
        /\ op' = [NoOp EXCEPT !.name = "other"]
        /\ UNCHANGED <<html, chapter_map, references, authors,
                       bibText, bibParsed, mref, mbib, mres>>

\* No store file exists before the first build.
Init ==
    /\ bib \in BibPool
    /\ html \in [Slugs -> UNION {DocsOf(s) : s \in Slugs}]
    /\ \A s \in Slugs : html[s] \in DocsOf(s)
    /\ chapter_map = EmptyMap
    /\ references = EmptyMap
    /\ authors = EmptyMap
    /\ op = NoOp
    /\ FunctionsIdle

Next == Build \/ CollectScreenshot \/ EnrichAuthor \/ EditDocument \/ EditBibliography

Spec == Init /\ [][Next]_vars

----------------------------------------------------------------------------
(* The dedup pipeline: build, dedup, build, ... on one hand-written chapter *)

MaxNum == 3

MaxEntries == 2

\* The sets of at most k numbers out of 1..n.
SmallSets(n, k) == {S \in SUBSET (1..n) : Cardinality(S) <= k}

\* The markers of the body: none, or one that points to any number.
Cites == {<<>>} \cup {<<n>> : n \in 1..MaxNum}

\* A chapter as its author writes it: entries with distinct ascending
\* numbers (gaps allowed), each in any form, and markers in the body.
HandDocs ==
    UNION {
        {Doc(C, [i \in 1..Cardinality(N) |->
                LiMarkup(Sorted(N)[i], e[i][1], e[i][2])]) :
            e \in [1..Cardinality(N) -> {"smith_abs", "doe"} \X Forms]} :
        <<C, N>> \in Cites \X SmallSets(MaxNum, MaxEntries)}

InitDedup ==
    /\ bib = <<BibEntry(KeySmith, EntrySmith), BibEntry(KeyMing, EntryMing)>>
    /\ \E d \in HandDocs :
          html = [s \in Slugs |-> IF s = "index" THEN d
                                  ELSE PlainDoc(<<"smith_pdf", "ming">>)]
    /\ chapter_map = EmptyMap
    /\ references = EmptyMap
    /\ authors = EmptyMap
    /\ op = NoOp
    /\ FunctionsIdle

NextDedup == Build \/ Dedup

SpecDedup == InitDedup /\ [][NextDedup]_vars

----------------------------------------------------------------------------
(* Properties of the dedup and renumber engine *)

\* The entries of a document carry exactly the numbers 1..K, once each.
Dense(toks) ==
    LET ns == EntryNums(toks)
    IN  NoDup(ns) /\ Range(ns) = 1..Len(ns)

\* The key the builder gives an entry with content c in document slug.
ContentKey(c, slug) ==
    ScanChapters(ScanInit, <<slug>>, [s \in {slug} |-> PlainDoc(<<c>>)],
                 bib).chapter_map[slug][1]

\* The positions in toks of the entries whose content has key k.
EntriesFor(toks, slug, k) ==
    {i \in 1..Len(toks) : toks[i].t = "li" /\ ContentKey(toks[i].c, slug) = k}

\* The contents of the entries numbered n.
ContentsAt(toks, n) ==
    {toks[i].c : i \in {i \in 1..Len(toks) : toks[i].t = "li" /\ toks[i].n = n}}

\* C1: after a dedup run (process_chapter on every document), the entries
\* of every document carry exactly the numbers 1..K, K the number of
\* distinct keys of its fragment, with no gap and no duplicate.
C1_DenseAfterDedup ==
    op.name = "dedup" =>
        \A s \in Slugs :
            /\ Dense(html[s])
            /\ Len(EntryNums(html[s])) = Cardinality(Range(chapter_map[s]))

\* C2: after a dedup run, for every group of numbers of a fragment that map
\* to one key, exactly one entry of the group remains, the one that had the
\* lowest number, and every marker that pointed to a number of the group
\* points to the number of that entry.
C2_OneEntryPerGroup ==
    op.name = "dedup" =>
        \A s \in Slugs : \A n \in DOMAIN chapter_map[s] :
            LET k == chapter_map[s][n]
                G == {m \in DOMAIN chapter_map[s] : chapter_map[s][m] = k}
                left == EntriesFor(html[s], s, k)
                before == CiteNums(op.html[s])
                after == CiteNums(html[s])
            IN  /\ Cardinality(left) = 1
                /\ \A i \in left : html[s][i].c \in ContentsAt(op.html[s], Min(G))
                /\ Len(after) = Len(before)
                /\ \A j \in 1..Len(before) :
                       before[j] \in G => \E i \in left : html[s][i].n = after[j]

----------------------------------------------------------------------------
(* Properties of the builder *)

\* C3: a builder run changes, in the record of a key that had a record,
\* only the builder fields; every other field keeps its value; screenshot
\* is null in the record of a key that had none.
C3_MergeKeepsOtherFields ==
    [][op'.name = "build" =>
          \A k \in DOMAIN references' :
              IF k \in DOMAIN references
              THEN /\ DOMAIN references'[k] = DOMAIN references[k]
                   /\ \A f \in DOMAIN references[k] \ BuilderFields :
                          references'[k][f] = references[k][f]
              ELSE references'[k]["screenshot"] = "null"]_vars

\* A builder run has rewritten a record that holds a screenshot.
C3_Witness ==
    /\ op.name = "build"
    /\ \E k \in DOMAIN references : references[k]["screenshot"] # "null"

\* C4: a builder run that directly follows a builder run, the sources and
\* the stores untouched in between, writes the three stores as they were.
C4_Idempotent ==
    [][(op.name = "build" /\ op'.name = "build") =>
          /\ chapter_map' = chapter_map
          /\ references' = references
          /\ authors' = authors]_vars

\* Two builder runs in a row over stores that hold enrichment.
C4_Witness ==
    /\ op.name = "build" /\ op.again
    /\ \E k \in DOMAIN references : references[k]["screenshot"] # "null"
    /\ \E a \in DOMAIN authors : authors[a].affiliation # "null"

\* C5: an enrichment value stored under a key is stored unchanged under
\* that key after every later builder run, whatever the documents cite.
C5_EnrichmentSurvives ==
    [][op'.name = "build" =>
          /\ \A k \in DOMAIN references :
                 references[k]["screenshot"] # "null" =>
                     /\ k \in DOMAIN references'
                     /\ references'[k]["screenshot"] = references[k]["screenshot"]
          /\ \A a \in DOMAIN authors :
                 authors[a].affiliation # "null" =>
                     /\ a \in DOMAIN authors'
                     /\ authors'[a].affiliation = authors[a].affiliation]_vars

\* C6: after a builder run, every number of a fragment is the number of
\* exactly one entry of the document, and every entry of the document has
\* its number in the fragment.
C6_MapMatchesList ==
    op.name = "build" =>
        \A s \in Slugs :
            /\ \A n \in DOMAIN chapter_map[s] :
                   Cardinality({i \in 1..Len(html[s]) :
                       html[s][i].t = "li" /\ html[s][i].n = n}) = 1
            /\ Range(EntryNums(html[s])) \subseteq DOMAIN chapter_map[s]

\* C7: after a builder run, every value of every fragment is a key of the
\* references store.
C7_MapValuesAreRecords ==
    op.name = "build" =>
        \A s \in DOMAIN chapter_map : \A n \in DOMAIN chapter_map[s] :
            chapter_map[s][n] \in DOMAIN references

\* A builder run has resolved one entry to a key of the bibliography and
\* another to a synthetic key.
C7_Witness ==
    /\ op.name = "build"
    /\ \E s \in DOMAIN chapter_map : \E n, m \in DOMAIN chapter_map[s] :
          /\ DictHas(bib, chapter_map[s][n])
          /\ ~DictHas(bib, chapter_map[s][m])

\* C8: after a builder run, every author key of every record is a key of
\* the authors store.
C8_AuthorKeysAreAuthors ==
    op.name = "build" =>
        \A k \in DOMAIN references :
            \A i \in 1..Len(references[k]["authors"]) :
                references[k]["authors"][i] \in DOMAIN authors

----------------------------------------------------------------------------
(* Bibliography parser (build_ref_db.py parse_bibtex) *)

\* The text of references.bib is a sequence of tokens: the characters that
\* the parser looks for, one token each, a run of white space as " ", and
\* every other run of word characters as one word.
BibMarks == {"@", "{", "}", ",", "=", " ", "\""}

IsWord(t) == t \notin BibMarks

\* The first index from i on whose token satisfies P; Len + 1 when none.
Find(toks, i, P(_)) ==
    LET hits == {j \in i..Len(toks) : P(toks[j])}
    IN  IF hits = {} THEN Len(toks) + 1 ELSE Min(hits)

\* str.strip() of a token sequence.
Strip(toks) ==
    LET inked == {j \in 1..Len(toks) : toks[j] # " "}
    IN  IF inked = {} THEN <<>> ELSE SubSeq(toks, Min(inked), Max(inked))

\* entry_re = '@(\w+)\s*\{' matched at p: the index after the match, or 0.
EntryEnd(toks, p) ==
    LET q == Find(toks, p + 2, LAMBDA t : t # " ")
    IN  IF /\ p + 1 <= Len(toks) /\ toks[p] = "@" /\ IsWord(toks[p + 1])
           /\ q <= Len(toks) /\ toks[q] = "{"
        THEN q + 1 ELSE 0

RECURSIVE MatchBrace(_, _, _)
\* The while i < len and depth > 0 loop; the value of i after it.
MatchBrace(toks, i, depth) ==
    IF i > Len(toks) \/ depth = 0 THEN i
    ELSE MatchBrace(toks, i + 1,
                    IF toks[i] = "{" THEN depth + 1
                    ELSE IF toks[i] = "}" THEN depth - 1 ELSE depth)

\* re.match('(\w+)\s*=\s*') at i: the index after the match, or 0.
FieldEnd(body, i) ==
    LET e == Find(body, i + 1, LAMBDA t : t # " ")
    IN  IF IsWord(body[i]) /\ e <= Len(body) /\ body[e] = "="
        THEN Find(body, e + 1, LAMBDA t : t # " ") ELSE 0

RECURSIVE _parse_bib_fields(_, _, _)
\* The loop of _parse_bib_fields from index i on, fields the dict so far.
_parse_bib_fields(body, i0, fields) ==
    LET i == Find(body, i0, LAMBDA t : t \notin {" ", ","})
        v == IF i > Len(body) THEN 0 ELSE FieldEnd(body, i)
        closed == MatchBrace(body, v + 1, 1)
        quote == Find(body, v + 1, LAMBDA t : t = "\"")
        bare == Find(body, v, LAMBDA t : t \in {" ", ",", "}"})
        set(value) == Update(fields, [f \in {Lower(body[i])} |-> Strip(value)])
    IN  IF i > Len(body) THEN fields
        ELSE IF v = 0 THEN _parse_bib_fields(body, i + 1, fields)
        ELSE IF v > Len(body) THEN fields
        ELSE IF body[v] = "{"
        THEN _parse_bib_fields(body, closed, set(SubSeq(body, v + 1, closed - 2)))
        ELSE IF body[v] = "\""
        THEN _parse_bib_fields(body, quote + 1, set(SubSeq(body, v + 1, quote - 1)))
        ELSE IF bare > v
        THEN _parse_bib_fields(body, bare, set(SubSeq(body, v, bare - 1)))
        ELSE _parse_bib_fields(body, v + 1, fields)

RECURSIVE ParseFrom(_, _, _)
\* The while pos < len(text) loop of parse_bibtex.
ParseFrom(toks, pos, entries) ==
    LET at == Find([j \in 1..Len(toks) |-> j], pos, LAMBDA j : EntryEnd(toks, j) # 0)
        start == EntryEnd(toks, at)
        comma == Find(toks, start, LAMBDA t : t = ",")
        i == MatchBrace(toks, comma + 1, 1)
        fields == _parse_bib_fields(SubSeq(toks, comma + 1, i - 2), 1, EmptyMap)
    IN  IF pos > Len(toks) \/ at > Len(toks) \/ comma > Len(toks) THEN entries
        ELSE ParseFrom(toks, i,
                 DictSet(entries, Strip(SubSeq(toks, start, comma - 1)),
                         Update(fields, [f \in {"_type"} |-> <<Lower(toks[at + 1])>>])))

parse_bibtex(toks) == ParseFrom(toks, 1, <<>>)

----------------------------------------------------------------------------
(* Parsing bibliography files *)

MaxBibEntries == 3

\* How an entry of the file is written. "nocomma" and "nocommafields" are
\* malformed: no comma follows the key.
EntryForms == {"braced", "nested", "quoted", "nocomma", "nocommafields"}

Malformed(form) == form \in {"nocomma", "nocommafields"}

\* The key of the i-th entry of a file.
KeyAt(i) == <<"key", ToString(i)>>

EntryText(form, key) ==
    CASE form = "braced" ->
            <<"@", "misc", "{">> \o key \o
            <<",", " ", "title", " ", "=", " ", "{", "Foo", " ", "Bar", "}", " ", "}">>
      [] form = "nested" ->
            <<"@", "Article", "{">> \o key \o
            <<",", "Title", "=", "{", "{", "Deep", "}", " ", "Nets", "}", ",",
              " ", "year", "=", "2021", " ", "}">>
      [] form = "quoted" ->
            <<"@", "misc", " ", "{", " ">> \o key \o
            <<" ", ",", "title", "=", "\"", "The", " ", "Mystery", "\"", ",", "}">>
      [] form = "nocomma" -> <<"@", "misc", "{">> \o key \o <<"}">>
      [] form = "nocommafields" ->
            <<"@", "misc", "{">> \o key \o
            <<" ", "title", "=", "{", "Foo", "}", "}">>

\* What a well-formed entry says.
EntryFields(form) ==
    CASE form = "braced" ->
            [f \in {"_type", "title"} |->
                IF f = "_type" THEN <<"misc">> ELSE <<"Foo", " ", "Bar">>]
      [] form = "nested" ->
            [f \in {"_type", "title", "year"} |->
                CASE f = "_type" -> <<"article">>
                  [] f = "title" -> <<"{", "Deep", "}", " ", "Nets">>
                  [] f = "year" -> <<"2021">>]
      [] form = "quoted" ->
            [f \in {"_type", "title"} |->
                IF f = "_type" THEN <<"misc">> ELSE <<"The", " ", "Mystery">>]

\* The file that holds the entries written in the forms fs, one per line.
FileText(fs) == Flatten([i \in 1..Len(fs) |-> EntryText(fs[i], KeyAt(i)) \o <<" ">>])

BibFiles == SeqsUpTo(EntryForms, MaxBibEntries)

\* bib_entries = parse_bibtex(BIB_FILE)
Parse ==
    /\ op.name = "init"
    /\ bibParsed' = parse_bibtex(bibText)
    /\ op' = [NoOp EXCEPT !.name = "parse"]
    /\ UNCHANGED <<bib, html, chapter_map, references, authors, bibText,
                   mref, mbib, mres>>

InitBib ==
    /\ bibText \in {FileText(fs) : fs \in BibFiles}
    /\ bibParsed = Idle
    /\ bib = <<>> /\ html = <<>>
    /\ chapter_map = EmptyMap /\ references = EmptyMap /\ authors = EmptyMap
    /\ op = NoOp
    /\ mref = Idle /\ mbib = Idle /\ mres = Idle

NextBib == Parse

SpecBib == InitBib /\ [][NextBib]_vars

\* C9: an entry whose key is followed by no comma is skipped: every
\* well-formed entry that follows it in the file is returned under its own
\* key with its own fields.
C9_LaterEntriesParsed ==
    op.name = "parse" =>
        \A fs \in BibFiles :
            bibText = FileText(fs) =>
                \A i, j \in 1..Len(fs) :
                    (i < j /\ Malformed(fs[i]) /\ ~Malformed(fs[j])) =>
                        /\ DictHas(bibParsed, KeyAt(j))
                        /\ DictGet(bibParsed, KeyAt(j)) = EntryFields(fs[j])

----------------------------------------------------------------------------
(* Matching one reference-list entry against a bibliography *)

ArxivUrl(form, id) == <<"https://", "arxiv.org", form, id>>

\* The links an entry may carry: none, the abstract page, the PDF, the
\* abstract page of a version, another paper, another site.
RefUrls ==
    {<<>>, UrlAbs, UrlPdf, UrlAbs \o <<"v2">>, ArxivUrl("/pdf/", "2301.00002"), UrlDeep}

RefTitles == {<<"Foo", "Bar">>, <<"The", "Mystery">>, <<>>}

RefAuthors == {<<"Smith", ",", "J.">>, <<"Doe", ",", "A.">>}

RefYears == {NoYear, 2020}

\* The entries the parser may hand to the matcher.
RefPool ==
    {[num |-> 1, authors_raw |-> a, title |-> t, venue |-> <<>>, url |-> u,
      year |-> y, all_text |-> a \o t] :
        a \in RefAuthors, t \in RefTitles, u \in RefUrls, y \in RefYears}

\* Another work with the title of the Smith paper.
EntryTwin == Entry("misc", <<"Doe", ",", "A.">>, <<"Foo", "Bar">>, "2021", <<>>)

\* The bibliographies the matcher may be given; one holds an entry written
\* "@misc{, ...}", whose key is the empty string, the last one two works
\* with one title.
MatchBibs ==
    {<<BibEntry(KeySmith, EntrySmith)>>,
     <<BibEntry(KeySmith, EntrySmith), BibEntry(KeyMing, EntryMing)>>,
     <<BibEntry(KeyMing, EntryMing)>>,
     <<BibEntry(<<>>, EntryMing), BibEntry(KeySmith, EntrySmith)>>,
     <<BibEntry(KeySmith, EntrySmith), BibEntry(KeyMing, EntryTwin)>>}

\* matches = match_refs_to_bib(html_refs, bib_entries), for one entry.
Match ==
    /\ op.name = "init"
    /\ mres' = match_refs_to_bib(<<mref>>, mbib)[1]
    /\ op' = [NoOp EXCEPT !.name = "match"]
    /\ UNCHANGED <<bib, html, chapter_map, references, authors, bibText,
                   bibParsed, mref, mbib>>

InitMatch ==
    /\ mref \in RefPool
    /\ mbib \in MatchBibs
    /\ mres = Idle
    /\ bibText = Idle /\ bibParsed = Idle
    /\ bib = <<>> /\ html = <<>>
    /\ chapter_map = EmptyMap /\ references = EmptyMap /\ authors = EmptyMap
    /\ op = NoOp

NextMatch == Match

SpecMatch == InitMatch /\ [][NextMatch]_vars

\* C10: an entry that links the PDF of an arXiv paper is resolved, by the
\* identifier stage (method arxiv), to the record of the bibliography that
\* links the abstract page of the same paper.
C10_PdfMatchesByIdentifier ==
    op.name = "match" =>
        \A i \in 1..Len(mbib) : \A id \in ArxivIds :
            (/\ BibUrl(mbib[i].v) = ArxivUrl("/abs/", id)
             /\ mref.url = ArxivUrl("/pdf/", id)) =>
                /\ mres.key = mbib[i].k
                /\ mres.method = "arxiv"

----------------------------------------------------------------------------
(* Properties of the synthetic keys *)

\* surname, year and first content word, joined; no year part for an entry
\* without a resolved year.
SurnameYearWord(ref) ==
    LET surname == IF ref.authors_raw # <<>> /\ CapPrefix(ref.authors_raw[1]) # ""
                   THEN CapPrefix(ref.authors_raw[1]) ELSE "unknown"
        title == IF ref.title # <<>> THEN ref.title ELSE ref.venue
        i == FirstIdx(title, LAMBDA w : WordNorm(w) # "" /\ WordNorm(w) \notin StopWords)
        title_word == IF i = 0 THEN "" ELSE WordNorm(title[i])
        year == IF ref.year = NoYear THEN "" ELSE YearStr(ref.year)
    IN  SelectSeq(<<surname, year, title_word>>, LAMBDA w : w # "")

\* The entries of document s that no matcher stage resolves.
Unresolved(s) ==
    With(With(html[s], parse_html_refs), LAMBDA refs :
        With(match_refs_to_bib(refs, bib), LAMBDA ms :
            {refs[i] : i \in {j \in 1..Len(refs) : ms[j].key = <<>>}}))

\* C11: after a builder run, every entry that no matcher stage resolves is
\* stored under the key surname + year + first content word, the year part
\* empty when the entry has no resolved year, with a record of type misc.
C11_SyntheticKeyForm ==
    op.name = "build" =>
        \A s \in Slugs : \A ref \in Unresolved(s) :
            /\ chapter_map[s][ref.num] = SurnameYearWord(ref)
            /\ SurnameYearWord(ref) \in DOMAIN references
            /\ references[SurnameYearWord(ref)]["type"] = "misc"

----------------------------------------------------------------------------
(* Properties of the matching cascade *)

\* C12: the stages are tried in the order URL identity, paper identifier,
\* partial URL, fuzzy title, author+year and the first that yields a record
\* decides: an entry whose normalized URL is an indexed URL of a record is
\* matched to that record by the URL stage whatever its other text; when
\* the URL is not indexed but its identifier is, the identifier stage
\* decides; the author+year stage is only tried with a resolved year.
C12_FirstStageDecides ==
    op.name = "match" =>
        With2(BuildIndex(IndexInit, mbib), normalize_url(mref.url), LAMBDA ix, ref_url :
            /\ (ref_url # <<>> /\ DictHas(ix.url_to_key, ref_url)) =>
                   mres = [key |-> DictGet(ix.url_to_key, ref_url), method |-> "url"]
            /\ (/\ ref_url # <<>> /\ ~DictHas(ix.url_to_key, ref_url)
                /\ DictHas(ix.arxiv_to_key, extract_arxiv_id(mref.url))) =>
                   mres = [key |-> DictGet(ix.arxiv_to_key, extract_arxiv_id(mref.url)),
                           method |-> "arxiv"]
            /\ mres.method = "author-year" => mref.year # NoYear)

----------------------------------------------------------------------------
(* Matching the reference list of a document, run after run *)

MaxList == 2

\* The entries of the lists: with or without a link, any title.
ListPool ==
    {r \in RefPool : /\ r.authors_raw = <<"Smith", ",", "J.">>
                     /\ r.year = 2020
                     /\ r.url \in {<<>>, UrlAbs, UrlDeep}}

\* matches = match_refs_to_bib(refs, bib_entries), for the list of a document.
MatchList ==
    /\ mres' = match_refs_to_bib(mref, mbib)
    /\ op' = [NoOp EXCEPT !.name = "match", !.again = (op.name = "match")]
    /\ UNCHANGED <<bib, html, chapter_map, references, authors, bibText,
                   bibParsed, mref, mbib>>

InitMatchList ==
    /\ mref \in SeqsUpTo(ListPool, MaxList)
    /\ mbib \in MatchBibs
    /\ mres = Idle
    /\ bibText = Idle /\ bibParsed = Idle
    /\ bib = <<>> /\ html = <<>>
    /\ chapter_map = EmptyMap /\ references = EmptyMap /\ authors = EmptyMap
    /\ op = NoOp

NextMatchList == MatchList

SpecMatchList == InitMatchList /\ [][NextMatchList]_vars

----------------------------------------------------------------------------
(* A builder run, file by file, that may be killed at any point *)

Running == op.name = "writing"

\* The store files hold v for file f and are otherwise unchanged.
SetStore(f, v) ==
    /\ chapter_map' = IF f = "chapter-map" THEN v ELSE chapter_map
    /\ references' = IF f = "references" THEN v ELSE references
    /\ authors' = IF f = "authors" THEN v ELSE authors

\* The dict the run holds in memory for file f.
MemOf(mem, f) ==
    CASE f = "chapter-map" -> mem.chapter_map
      [] f = "references" -> mem.references
      [] f = "authors" -> mem.authors

\* build_databases up to "# Write JSON files": the sources and the prior
\* stores are read (json.load raises on a cut-off file), the dicts computed.
BuildCompute ==
    /\ ~Running
    /\ op.run.partial \cap {"references", "authors"} = {}
    /\ \E out \in {build_databases(bib, html, references, authors)} :
          op' = [NoOp EXCEPT !.name = "writing",
                             !.run = [mem |-> out, next |-> 1, opened |-> FALSE,
                                      partial |-> op.run.partial]]
    /\ UNCHANGED <<bib, html, chapter_map, references, authors,
                   bibText, bibParsed, mref, mbib, mres>>

\* open(DATA_DIR / file, "w"): the file is cut to length zero.
OpenStore ==
    /\ Running /\ ~op.run.opened
    /\ SetStore(Stores[op.run.next], EmptyMap)
    /\ op' = [op EXCEPT !.run.opened = TRUE,
                        !.run.partial = @ \cup {Stores[op.run.next]}]
    /\ UNCHANGED <<bib, html, bibText, bibParsed, mref, mbib, mres>>

\* json.dump and the end of the with block: the file holds the whole text.
DumpStore ==
    /\ Running /\ op.run.opened
    /\ SetStore(Stores[op.run.next], MemOf(op.run.mem, Stores[op.run.next]))
    /\ op' = IF op.run.next = Len(Stores)
             THEN [NoOp EXCEPT !.name = "build",
                               !.run.partial = op.run.partial \ {Stores[op.run.next]}]
             ELSE [op EXCEPT !.run.opened = FALSE,
                             !.run.next = @ + 1,
                             !.run.partial = @ \ {Stores[op.run.next]}]
    /\ UNCHANGED <<bib, html, bibText, bibParsed, mref, mbib, mres>>

\* The process is killed during the run.
Crash ==
    /\ Running
    /\ op' = [NoOp EXCEPT !.name = "crashed", !.run.partial = op.run.partial]
    /\ UNCHANGED <<bib, html, chapter_map, references, authors,
                   bibText, bibParsed, mref, mbib, mres>>

NextCrash == BuildCompute \/ OpenStore \/ DumpStore \/ Crash

SpecCrash == Init /\ [][NextCrash]_vars

\* C14: when a builder run is killed, every store file on disk holds a
\* whole text, the one it held before the run or the one the run computed;
\* none is cut off.
C14_StoresWholeAfterCrash ==
    op.name = "crashed" => op.run.partial = {}

----------------------------------------------------------------------------
(* Properties of the dedup run and the ChapterMap *)

\* C15: right after a dedup run that changed a document, the fragment of
\* that document in the persisted ChapterMap has exactly the new numbers
\* 1..K as keys, each mapped to the key of the entry that now carries it.
C15_MapRewrittenWithMarkup ==
    op.name = "dedup" =>
        \A s \in Slugs :
            html[s] # op.html[s] =>
                /\ DOMAIN MapOf(chapter_map, s) = 1..Len(EntryNums(html[s]))
                /\ \A i \in 1..Len(html[s]) :
                       (html[s][i].t = "li" /\ html[s][i].n \in DOMAIN MapOf(chapter_map, s))
                           => chapter_map[s][html[s][i].n] = ContentKey(html[s][i].c, s)


\* The positions of the entries of toks.
EntryPos(toks) == {i \in 1..Len(toks) : toks[i].t = "li"}

\* The dedup run treated document s as claimed for a run in which a marked
\* block was not found: the markers are redirected and renumbered, every
\* kept entry is there under its new number, and of the marked blocks only
\* those the run warned about are left.
SkippedAndContinued(s) ==
    With3(op.html[s], html[s], MapOf(chapter_map, s), LAMBDA before, after, cm :
        With3(DOMAIN build_redirect_map(cm), FinalMap(cm), EntryPos(before),
              LAMBDA entries_to_remove, final_map, entries :
            /\ CiteNums(after) =
                   [j \in 1..Len(CiteNums(before)) |->
                       IF CiteNums(before)[j] \in DOMAIN final_map
                       THEN final_map[CiteNums(before)[j]]
                       ELSE CiteNums(before)[j]]
            /\ \A i \in entries :
                   before[i].n \notin entries_to_remove =>
                       \E j \in EntryPos(after) :
                           /\ after[j].c = before[i].c
                           /\ after[j].n = IF before[i].n \in DOMAIN final_map
                                           THEN final_map[before[i].n]
                                           ELSE before[i].n
            /\ Cardinality(EntryPos(after)) =
                   Cardinality({i \in entries : before[i].n \notin entries_to_remove})
                       + op.warned[s]))

----------------------------------------------------------------------------
(* Auditing the site between builder and dedup runs *)

\* python audit_refs.py; it opens the three stores first and raises when
\* one does not exist.
Audit ==
    /\ DOMAIN chapter_map # {}
    /\ op' = [NoOp EXCEPT !.name = "audit",
                          !.audit = run_audit(chapter_map, references, authors, html)]
    /\ UNCHANGED <<bib, html, chapter_map, references, authors,
                   bibText, bibParsed, mref, mbib, mres>>

NextAudit == Build \/ Dedup \/ Audit

SpecAudit == InitDedup /\ [][NextAudit]_vars

\* C17: an audit run reports a dangling citation for number n of a document
\* exactly when a marker of the document points to n and its reference
\* list has no entry numbered n.
C17_DanglingIffNoEntry ==
    op.name = "audit" =>
        /\ \A m \in op.audit.errors :
               m.kind = "dangling" =>
                   /\ m.num \in Range(CiteNums(html[m.slug]))
                   /\ m.num \notin Range(EntryNums(html[m.slug]))
        /\ \A s \in Slugs :
               \A n \in Range(CiteNums(html[s])) \ Range(EntryNums(html[s])) :
                   Msg("dangling", s, n, <<>>) \in op.audit.errors

\* An audit run has reported a dangling citation, on a site where a marker
\* of a document points to an entry whose <li> has no end tag.
C17_Witness ==
    /\ op.name = "audit"
    /\ \E m \in op.audit.errors : m.kind = "dangling"

\* C18: an audit run reports an error for every number that has an entry
\* in the markup and none in the fragment, and for every number that has
\* one in the fragment and no entry in the markup, and no other error of
\* these two kinds.
C18_MapAndMarkupCompared ==
    op.name = "audit" =>
        \A s \in Slugs :
            LET entry_nums == Range(EntryNums(html[s]))
                cm_nums == DOMAIN MapOf(chapter_map, s)
            IN  /\ {m.num : m \in {e \in op.audit.errors :
                                      e.kind = "html-not-map" /\ e.slug = s}}
                       = entry_nums \ cm_nums
                /\ {m.num : m \in {e \in op.audit.errors :
                                      e.kind = "map-not-html" /\ e.slug = s}}
                       = cm_nums \ entry_nums

\* An audit run has reported errors of both directions, and a document of
\* the site has none of either.
C18_Witness ==
    /\ op.name = "audit"
    /\ \E m \in op.audit.errors : m.kind = "html-not-map"
    /\ \E m \in op.audit.errors : m.kind = "map-not-html"
    /\ \E s \in Slugs :
          /\ DOMAIN MapOf(chapter_map, s) = Range(EntryNums(html[s]))
          /\ EntryNums(html[s]) # <<>>

\* What an audit run found: errors, warnings only, or nothing.
Outcome(a) ==
    IF a.errors # {} THEN "errors" ELSE IF a.warnings # {} THEN "warnings" ELSE "clean"

\* The audit of a site with no reference yet: nothing to report.
CleanRun ==
    run_audit([s \in Slugs |-> EmptyMap], EmptyMap, EmptyMap,
              [s \in Slugs |-> PlainDoc(<<>>)])

\* C19: an audit run that found something else than the audit of a clean
\* site ends with another completion status than that one.
C19_StatusTellsOutcome ==
    op.name = "audit" =>
        (Outcome(op.audit) # Outcome(CleanRun) => op.audit.status # CleanRun.status)

----------------------------------------------------------------------------
(* Properties of the authors store *)

\* The display names of the names a builder run on these sources parses
\* for author key akey.
FreshNames(akey, bib_entries, docs) ==
    With(ScanChapters(ScanInit, CHAPTER_FILES, docs, bib_entries).all_matches,
         LAMBDA all_matches :
            UNION {With(parse_bib_authors(Get(all_matches[i].v, "author")), LAMBDA parsed :
                       {make_display_name(parsed[j].first, parsed[j].last) :
                           j \in {m \in 1..Len(parsed) :
                                     make_author_key(parsed[m].first, parsed[m].last) = akey}}) :
                   i \in 1..Len(all_matches)})

\* C20: a builder run writes, for an author key the prior store had, the
\* prior record with nothing changed but displayName, and displayName is
\* the display name of a name the run parsed for that key.
C20_DisplayNameRefreshed ==
    [][op'.name = "build" =>
          \A a \in DOMAIN authors \cap DOMAIN authors' :
              /\ [authors'[a] EXCEPT !.displayName = authors[a].displayName] = authors[a]
              /\ authors'[a].displayName \in FreshNames(a, bib, html)]_vars

\* A builder run has written the record of an enriched author whose key two
\* differently written names of the sources produce.
C20_Witness ==
    /\ op.name = "build"
    /\ \E a \in DOMAIN authors :
          /\ authors[a].affiliation # "null"
          /\ Cardinality(FreshNames(a, bib, html)) > 1

----------------------------------------------------------------------------
(* Auditing a site whose documents cite works the bibliography lacks *)

\* The reference lists of this site: entries of two works that no record
\* of the bibliography matches, one of them without a title.
LooseDocs == {PlainDoc(cs) : cs \in SeqsUpTo({"doe", "untitled", "sequel"}, MaxRefs)}

InitLoose ==
    /\ bib = <<BibEntry(KeySmith, EntrySmith), BibEntry(KeyMing, EntryMing)>>
    /\ html \in [Slugs -> LooseDocs]
    /\ chapter_map = EmptyMap
    /\ references = EmptyMap
    /\ authors = EmptyMap
    /\ op = NoOp
    /\ FunctionsIdle

NextLoose == Build \/ Audit

SpecLoose == InitLoose /\ [][NextLoose]_vars

\* The documents whose fragment maps some number to key k.
DocsCiting(k) ==
    {s \in DOMAIN chapter_map : \E n \in DOMAIN chapter_map[s] : chapter_map[s][n] = k}

\* C21: the cross-document check of an audit run reports a key exactly when
\* the fragments of more than one document map a number to it and its
\* record has an empty or no title; a key that only one document maps,
\* however often, is not reported.
C21_CrossDocumentOnly ==
    op.name = "audit" =>
        \A k \in UNION {Range(chapter_map[s]) : s \in DOMAIN chapter_map} :
            Msg("shared-no-title", "", 0, k) \in op.audit.warnings
                <=> /\ Cardinality(DocsCiting(k)) > 1
                    /\ (k \notin DOMAIN references \/ Get(references[k], "title") = <<>>)

----------------------------------------------------------------------------
(* Properties of the fuzzy title stage *)

\* The scores the stage computes, in the order it computes them: candidate
\* fields in their order, and for each the records in index order.
ScoreList(ref, ix) ==
    With(SelectSeq([i \in 1..Len(Candidates(ref)) |-> normalize_title(Candidates(ref)[i])],
                   LAMBDA c : c # <<>>),
         LAMBDA cands :
            [p \in 1..(Len(cands) * Len(ix.title_index)) |->
                With2(cands[((p - 1) \div Len(ix.title_index)) + 1],
                      ix.title_index[((p - 1) % Len(ix.title_index)) + 1],
                      LAMBDA c, e : [score |-> FuzzyScore(c, e.k), key |-> e.v])])

\* The position of the first of the greatest scores.
FirstMax(scores) ==
    Min({i \in 1..Len(scores) : \A j \in 1..Len(scores) :
            /\ Ge(scores[i].score, scores[j].score)
            /\ j < i => Gt(scores[i].score, scores[j].score)})

\* C22: when the URL stages leave an entry unmatched, the fuzzy title stage
\* takes the first pair of candidate field and record with the greatest
\* score and accepts its record exactly when that score is at least 0.65.
C22_FirstBestAtThreshold ==
    op.name = "match" =>
        With(BuildIndex(IndexInit, mbib), LAMBDA ix :
            UrlStage(mref, ix).key = <<>> =>
                With(ScoreList(mref, ix), LAMBDA scores :
                    IF scores # <<>> /\ Ge(scores[FirstMax(scores)].score, TitleAccept)
                    THEN /\ mres.method = "title-fuzzy"
                         /\ mres.key = scores[FirstMax(scores)].key
                    ELSE mres.method # "title-fuzzy"))

\* The stage has accepted the first of two records with equal scores.
C22_Witness ==
    /\ op.name = "match"
    /\ mres.method = "title-fuzzy"
    /\ \E i, j \in 1..Len(mbib) :
          /\ i < j
          /\ Get(mbib[i].v, "title") = Get(mbib[j].v, "title")
          /\ mres.key = mbib[i].k

----------------------------------------------------------------------------
(* Dedup runs on chapters with up to MaxNum closed entries *)

\* A chapter with entries of distinct ascending numbers (gaps allowed) in
\* the plain form, two of the three texts being one paper.
ListedDocs ==
    UNION {
        {Doc(C, [i \in 1..Cardinality(N) |-> LiMarkup(Sorted(N)[i], e[i], "plain")]) :
            e \in [1..Cardinality(N) -> {"smith_abs", "smith_pdf", "ming"}]} :
        <<C, N>> \in Cites \X SUBSET (1..MaxNum)}

InitRenumber ==
    /\ bib = <<BibEntry(KeySmith, EntrySmith), BibEntry(KeyMing, EntryMing)>>
    /\ \E d \in ListedDocs :
          html = [s \in Slugs |-> IF s = "index" THEN d ELSE PlainDoc(<<>>)]
    /\ chapter_map = EmptyMap
    /\ references = EmptyMap
    /\ authors = EmptyMap
    /\ op = NoOp
    /\ FunctionsIdle

NextRenumber == Build \/ Dedup

SpecRenumber == InitRenumber /\ [][NextRenumber]_vars

\* The numbers of a ChapterMap that dedup keeps: the lowest of every key.
Kept(e) == {n \in DOMAIN e : \A m \in DOMAIN e : e[m] = e[n] => n <= m}

\* C23: the renumber map keeps the order of the kept numbers and gives them
\* exactly the numbers 1..K, K the number of distinct keys of the ChapterMap
\* of the document; the final number of a number is that of the kept number
\* of its key.
C23_RenumberOrderedDense ==
    \A s \in DOMAIN chapter_map :
        With3(chapter_map[s],
              build_renumber_map(DOMAIN chapter_map[s],
                                 DOMAIN build_redirect_map(chapter_map[s])),
              FinalMap(chapter_map[s]),
              LAMBDA e, renumber, final :
                /\ DOMAIN renumber = Kept(e)
                /\ \A a, b \in Kept(e) : a < b => renumber[a] < renumber[b]
                /\ {renumber[a] : a \in Kept(e)} = 1..Cardinality({e[n] : n \in DOMAIN e})
                /\ DOMAIN final = DOMAIN e
                /\ \A n \in DOMAIN e :
                      final[n] = renumber[CHOOSE a \in Kept(e) : e[a] = e[n]])

\* Dedup has run on a ChapterMap with a removed number between kept ones.
C23_Witness ==
    /\ op.name = "dedup"
    /\ \E s \in DOMAIN chapter_map : \E a, b, c \in DOMAIN chapter_map[s] :
          /\ a < b /\ b < c
          /\ chapter_map[s][a] = chapter_map[s][b]
          /\ chapter_map[s][a] # chapter_map[s][c]
          /\ html # op.html

\* C28: a dedup run that directly follows a dedup run, with the ChapterMap
\* store of the first, leaves every document as the first run left it.
C28_SecondDedupChangesNothing ==
    [][(op.name = "dedup" /\ op'.name = "dedup") => html' = html]_vars

----------------------------------------------------------------------------
(* Documents with containers before, inside and after the reference list *)

\* One item of a reference list: an entry, a nested container with or
\* without an entry, the nested container being a plain section or one
\* whose class holds the word references.
ItemKinds == {"li", "sec", "sec_li", "refsec", "refsec_li"}

ItemMarkup(n, kind) ==
    CASE kind = "li" -> LiMarkup(n, "ming", "plain")
      [] kind = "sec" -> <<TSection(FALSE), TEndSection>>
      [] kind = "sec_li" ->
            <<TSection(FALSE)>> \o LiMarkup(n, "ming", "plain") \o <<TEndSection>>
      [] kind = "refsec" -> <<TSection(TRUE), TEndSection>>
      [] kind = "refsec_li" ->
            <<TSection(TRUE)>> \o LiMarkup(n, "ming", "plain") \o <<TEndSection>>

\* What stands before or after the reference-list container: nothing, a
\* list with an entry, or a section with such a list.
OutsideKinds == {"none", "li", "sec_li"}

OutsideMarkup(n, kind) ==
    CASE kind = "none" -> <<>>
      [] kind = "li" -> <<TOl>> \o LiMarkup(n, "ming", "plain") \o <<TEndOl>>
      [] kind = "sec_li" ->
            <<TSection(FALSE), TOl>> \o LiMarkup(n, "ming", "plain")
                \o <<TEndOl, TEndSection>>

NestedDoc(before, items, after) ==
    OutsideMarkup(1, before)
    \o <<TSection(TRUE), TOl>>
    \o Flatten([i \in 1..Len(items) |-> ItemMarkup(i + 1, items[i])])
    \o <<TEndOl, TEndSection>>
    \o OutsideMarkup(Len(items) + 2, after)

NestedDocs ==
    {NestedDoc(b, items, a) :
        <<b, items, a>> \in OutsideKinds \X SeqsUpTo(ItemKinds, MaxRefs) \X OutsideKinds}

InitNested ==
    /\ bib = <<BibEntry(KeySmith, EntrySmith), BibEntry(KeyMing, EntryMing)>>
    /\ \E d \in NestedDocs :
          html = [s \in Slugs |-> IF s = "index" THEN d ELSE PlainDoc(<<>>)]
    /\ chapter_map = EmptyMap
    /\ references = EmptyMap
    /\ authors = EmptyMap
    /\ op = NoOp
    /\ FunctionsIdle

NextNested == Build \/ Audit

SpecNested == InitNested /\ [][NextNested]_vars

\* The numbers of the entries between the open tag of the reference-list
\* container and its own close tag: d is the number of open containers, c
\* the value of d inside the reference-list container (0 outside of it).
RECURSIVE InContainer(_, _, _)
InContainer(toks, d, c) ==
    IF toks = <<>> THEN {}
    ELSE CASE toks[1].t = "section" ->
                InContainer(Tail(toks), d + 1,
                            IF c = 0 /\ toks[1].refs THEN d + 1 ELSE c)
           [] toks[1].t = "/section" ->
                InContainer(Tail(toks), d - 1, IF d = c THEN 0 ELSE c)
           [] toks[1].t = "li" ->
                (IF c # 0 THEN {toks[1].n} ELSE {}) \cup InContainer(Tail(toks), d, c)
           [] OTHER -> InContainer(Tail(toks), d, c)

\* C24: the parsers of the builder and of the auditor collect exactly the
\* entries inside the reference-list container, entries inside nested
\* containers included, and none before its open tag or after its own
\* close tag.
C24_CollectedInsideContainer ==
    op.name # "init" =>
        \A s \in Slugs :
            /\ {r.num : r \in Range(parse_html_refs(html[s]))} = InContainer(html[s], 0, 0)
            /\ Range(parse_chapter(html[s]).ref_entries) = InContainer(html[s], 0, 0)

----------------------------------------------------------------------------
(* Properties of the records of the references store *)

\* C25: every record the builder writes has a year that is an integer or
\* null, be it made from a bibliography entry or synthesized for an
\* unmatched entry, with or without a resolved year.
C25_YearIntegerOrNull ==
    op.name = "build" =>
        \A k \in DOMAIN references : Get(references[k], "year").tag \in {"int", "null"}

\* The work of a reference-list entry: its author text and its title.
Work(c) == <<RefText[c].authors_raw, RefText[c].title>>

\* The contents of the entries of all documents that have key k in the
\* ChapterMap.
ContentsOfKey(k) ==
    UNION {ContentsAt(html[s], n) :
              <<s, n>> \in {<<s, n>> \in Slugs \X (1..MaxRefs + 1) :
                                /\ s \in DOMAIN chapter_map
                                /\ n \in DOMAIN chapter_map[s]
                                /\ chapter_map[s][n] = k}}

\* C26: within one builder run two entries that differ in title or author
\* text never get the same key, a synthesized key is never a key of the
\* bibliography, and the record of a key is the record of the one work
\* that has the key.
C26_OneWorkPerKey ==
    op.name = "build" =>
        \A k \in DOMAIN references :
            /\ Cardinality({Work(c) : c \in ContentsOfKey(k)}) <= 1
            /\ (k \notin {bib[i].k : i \in 1..Len(bib)}) =>
                  \A c \in ContentsOfKey(k) :
                      Get(references[k], "title") = RefText[c].title

----------------------------------------------------------------------------
(* Soundness of the audit *)

\* C27: when the audit reports no error, every citation marker of every
\* document has a reference-list entry with its number, the ChapterMap of
\* the document has that number, and the key it maps to is a record of the
\* references store with a non-empty title.
C27_NoErrorMeansResolved ==
    (op.name = "audit" /\ op.audit.errors = {}) =>
        \A s \in Slugs : \A n \in Range(CiteNums(html[s])) :
            /\ n \in Range(EntryNums(html[s]))
            /\ n \in DOMAIN MapOf(chapter_map, s)
            /\ chapter_map[s][n] \in DOMAIN references
            /\ Get(references[chapter_map[s][n]], "title") # <<>>

\* An audit without errors of a site with a citation marker.
C27_Witness ==
    /\ op.name = "audit"
    /\ op.audit.errors = {}
    /\ \E s \in Slugs : CiteNums(html[s]) # <<>>

----------------------------------------------------------------------------
(* Builder, dedup, builder *)

\* A chapter whose entries have their id in double or in single quotes.
QuotedDocs ==
    UNION {
        {Doc(C, [i \in 1..Cardinality(N) |->
                LiMarkup(Sorted(N)[i], e[i][1], e[i][2])]) :
            e \in [1..Cardinality(N) -> {"smith_abs", "ming"} \X {"plain", "quoted"}]} :
        <<C, N>> \in Cites \X SmallSets(MaxNum, MaxEntries)}

InitQuoted ==
    /\ bib = <<BibEntry(KeySmith, EntrySmith), BibEntry(KeyMing, EntryMing)>>
    /\ \E d \in QuotedDocs :
          html = [s \in Slugs |-> IF s = "index" THEN d ELSE PlainDoc(<<>>)]
    /\ chapter_map = EmptyMap
    /\ references = EmptyMap
    /\ authors = EmptyMap
    /\ op = NoOp
    /\ FunctionsIdle

NextQuoted == Build \/ Dedup

SpecQuoted == InitQuoted /\ [][NextQuoted]_vars

\* A ChapterMap that maps no two numbers to one key and whose numbers are
\* 1..K.
DenseMap(e) ==
    /\ \A a, b \in DOMAIN e : e[a] = e[b] => a = b
    /\ DOMAIN e = 1..Cardinality(DOMAIN e)

\* C29: after a builder run, a dedup run that located every marked block
\* and a second builder run, no ChapterMap maps two numbers to one key, the
\* numbers of every ChapterMap are 1..K, and a further dedup run changes
\* no document.
C29_SettledAfterRebuild ==
    (op.name = "build" /\ Len(op.before) = 2 /\ op.before[2] = "build"
        /\ op.before[1] \in {"dedup-changed", "dedup-same"}) =>
        \A s \in Slugs :
            /\ DenseMap(MapOf(chapter_map, s))
            /\ ~process_chapter(html[s], MapOf(chapter_map, s)).changed

----------------------------------------------------------------------------
(* The two parsers of the reference list *)

\* C30: the parser of the builder and the parser of the auditor extract
\* the same set of entry numbers from every document, entries without an
\* end tag included.
C30_ParsersAgree ==
    op.name \in {"build", "audit"} =>
        \A s \in Slugs :
            {r.num : r \in Range(parse_html_refs(html[s]))}
                = Range(parse_chapter(html[s]).ref_entries)

====
